---------------------------- MODULE Spec2Model ----------------------------
(***************************************************************************)
(* A model of the Gmail synchronisation engine (GmailServiceImpl): the     *)
(* backoff executor, the page loops, and the sync strategies writing to    *)
(* the relational store through chunk transactions.                        *)
(*                                                                         *)
(* These specifications share the module:                                  *)
(*   SpecRetry  retryWithBackoff driven by every outcome of the operation  *)
(*   SpecPages  the page loop of syncUserEmails over upstream page sizes   *)
(*   SpecBackground  the page loop of the background continuation          *)
(*   SpecAll    syncAllUsersEmails over the outcomes of the users' syncs   *)
(*   SpecPush   the push webhook over notifications and sync outcomes      *)
(*   SpecBody   extractEmailBody over part trees                           *)
(*   Spec       the sync calls, their transactions and the store           *)
(*   SpecLive   the functions above under fair scheduling, for termination *)
(*   SpecCallers  the sync calls the repository makes, with the webhook    *)
(*   SpecInbox  getInboxTotalCount over the answers of the upstream        *)
(*   SpecHeaders  parseEmailHeaders over header lists                      *)
(*   SpecResync  the sync calls over a store an earlier sync has filled    *)
(*   SpecPaginated  a paginated sync and the page loop of its continuation *)
(*   SpecReads  the queries of the email router over a store syncs fill    *)
(***************************************************************************)
EXTENDS Integers, Sequences, FiniteSets, TLC

VARIABLES
    rt,         \* the frame of one retryWithBackoff call
    pg,         \* the frame of one page loop of syncUserEmails
    bgp,        \* the frame of one page loop of syncRemainingPagesInBackground
    all,        \* the frame of one syncAllUsersEmails call
    push,       \* the frame of the push webhook handling one notification
    body,       \* the frame of one extractEmailBody call
    inbox,      \* the frame of one getInboxTotalCount call
    hdr,        \* the frame of one parseEmailHeaders call
    rd,         \* the last query of the email router and its answer
    threads,    \* committed EmailThread rows
    messages,   \* committed EmailMessage rows
    syncState,  \* committed GmailSyncState rows
    call,       \* the frame of each sync call (and of its continuation)
    now         \* the clock read by new Date()

vars == <<rt, pg, bgp, all, push, body, inbox, hdr, rd, threads, messages, syncState, call, now>>
varsRetry == <<rt>>
varsPages == <<pg>>
varsBackground == <<bgp>>
varsAll == <<all>>
varsPush == <<push, syncState, now>>
varsBody == <<body>>
varsInbox == <<inbox>>
varsHeaders == <<hdr>>
varsReads == <<rd>>
\* the frames of the specifications of one function, which the sync calls
\* of Spec leave alone
varsSide == <<rt, pg, bgp, all, push, body, inbox, hdr, rd>>
varsMain == <<threads, messages, syncState, call, now>>

(***************************************************************************)
(* Bounds of the model.                                                    *)
(***************************************************************************)
\* the largest attempt budget handed to retryWithBackoff
MaxRetriesArg == 3
\* the largest page ceiling handed to the page loop
MaxPagesArg == 5
\* the largest number of users syncAllUsersEmails enumerates
MaxUsers == 3
\* the notifications the push webhook handles in one behaviour
MaxNotifications == 3
\* the largest number of parts at the top of a payload
MaxParts == 2
\* the pages one continuation is followed through
MaxBackgroundPages == 22
\* the longest header list handed to parseEmailHeaders
MaxHeaders == 3

(***************************************************************************)
(* retryWithBackoff (part_002 lines 77-104)                                *)
(***************************************************************************)
\* baseDelay = 1000
DefaultBaseDelay == 1000

\* response.status of the errors the operation can raise; an error without
\* a response (a network error, a TypeError) has no status
Statuses == {400, 404, 429, 500, 503}
\* response.headers['retry-after']: absent, or a header string
RetryAfterHints == {"absent", "0", "2", "date"}

NoError == [hasStatus |-> FALSE, status |-> 0, retryAfter |-> "absent", n |-> 0]

\* the errors the n-th invocation of the operation can raise
ErrorsOf(n) ==
    [hasStatus : {TRUE}, status : Statuses, retryAfter : RetryAfterHints, n : {n}]
        \cup {[hasStatus |-> FALSE, status |-> 0, retryAfter |-> "absent", n |-> n]}

\* gmailError?.response?.status ?? 0
StatusOrZero(e) == IF e.hasStatus THEN e.status ELSE 0

IsRateLimit(e) == e.hasStatus /\ e.status = 429

IsServerError(e) == StatusOrZero(e) >= 500

\* a mutant: every error with a status is retried
IsRetryable_anyStatus(e) == e.hasStatus

\* !( !isRateLimit && !isServerError )
IsRetryable(e) == IsRateLimit(e) \/ IsServerError(e)

\* a mutant: the budget test is off by one, so the last failure sleeps and
\* the loop falls through to 'Max retries exceeded'
BudgetExhausted_offByOne(attempt, maxRetries) == attempt = maxRetries + 1

\* if (attempt === maxRetries) throw error
BudgetExhausted(attempt, maxRetries) == attempt = maxRetries

\* parseInt's NaN
NaN == -1

\* parseInt(retryAfter) for the header strings of RetryAfterHints
ParseInt(s) ==
    CASE s = "0" -> 0
      [] s = "2" -> 2
      [] OTHER -> NaN

\* the truthiness of retryAfter: undefined is falsy, a non-empty string truthy
Truthy(s) == s /= "absent"

RECURSIVE Pow2(_)
Pow2(k) == IF k = 0 THEN 1 ELSE 2 * Pow2(k - 1)

\* a mutant: without a hint the delay grows by baseDelay per attempt
BackoffDelay_linear(e, attempt, baseDelay) ==
    IF Truthy(e.retryAfter)
    THEN IF ParseInt(e.retryAfter) = NaN THEN NaN ELSE ParseInt(e.retryAfter) * 1000
    ELSE baseDelay * (attempt + 1)

\* retryAfter ? parseInt(retryAfter) * 1000 : baseDelay * Math.pow(2, attempt)
BackoffDelay(e, attempt, baseDelay) ==
    IF Truthy(e.retryAfter)
    THEN IF ParseInt(e.retryAfter) = NaN THEN NaN ELSE ParseInt(e.retryAfter) * 1000
    ELSE baseDelay * Pow2(attempt)

\* the error of 'throw new Error("Max retries exceeded")' after the loop
MaxRetriesExceeded == [hasStatus |-> FALSE, status |-> 0, retryAfter |-> "absent", n |-> -1]

RtIdle ==
    [pc |-> "idle", maxRetries |-> 0, baseDelay |-> DefaultBaseDelay, attempt |-> 0,
     calls |-> 0, sleeps |-> 0, lastDelay |-> 0, err |-> NoError, thrown |-> NoError,
     allRetryable |-> TRUE, anyHint |-> FALSE]

\* retryWithBackoff(fn, maxRetries, baseDelay) is entered
RetryEnter(mr) ==
    /\ rt.pc = "idle"
    /\ rt' = [rt EXCEPT !.pc = "call", !.maxRetries = mr]
    /\ UNCHANGED <<pg, bgp, all, push, body, inbox, hdr, rd, varsMain>>

\* return await fn() : the operation succeeds
RetryFnReturns ==
    /\ rt.pc = "call"
    /\ rt' = [rt EXCEPT !.pc = "returned", !.calls = @ + 1]
    /\ UNCHANGED <<pg, bgp, all, push, body, inbox, hdr, rd, varsMain>>

\* await fn() raises e : the catch block
RetryFnRaises(e) ==
    /\ rt.pc = "call"
    /\ e.n = rt.calls + 1
    /\ LET r == [rt EXCEPT !.calls = @ + 1, !.err = e,
                           !.allRetryable =
                               @ /\ e.hasStatus /\ (e.status = 429 \/ e.status >= 500),
                           !.anyHint = @ \/ Truthy(e.retryAfter)]
       IN  rt' = IF BudgetExhausted(rt.attempt, rt.maxRetries) \/ ~IsRetryable(e)
                 THEN [r EXCEPT !.pc = "thrown", !.thrown = e]
                 ELSE [r EXCEPT !.pc = "sleep", !.sleeps = @ + 1,
                                !.lastDelay = BackoffDelay(e, rt.attempt, rt.baseDelay)]
    /\ UNCHANGED <<pg, bgp, all, push, body, inbox, hdr, rd, varsMain>>

\* the timer fires: attempt++ and the loop test attempt <= maxRetries
RetryWake ==
    /\ rt.pc = "sleep"
    /\ rt' = IF rt.attempt + 1 <= rt.maxRetries
             THEN [rt EXCEPT !.pc = "call", !.attempt = @ + 1]
             ELSE [rt EXCEPT !.pc = "thrown", !.attempt = @ + 1,
                             !.thrown = MaxRetriesExceeded]
    /\ UNCHANGED <<pg, bgp, all, push, body, inbox, hdr, rd, varsMain>>

(***************************************************************************)
(* The page loop of syncUserEmails (part_002 lines 241-263), over upstream *)
(* pages given by their size and by whether a nextPageToken comes with     *)
(* them.                                                                   *)
(***************************************************************************)
\* maxPages = 5
DefaultMaxPages == 5

\* the sizes a page of the upstream can have
PageSizes == {0, 37, 100}

\* a mutant: the ceiling test admits one page too many
LoopAgain_offByOne(hasToken, pageCount, maxPages) ==
    hasToken /\ pageCount <= maxPages

\* while (nextPageToken && pageCount < maxPages)
LoopAgain(hasToken, pageCount, maxPages) ==
    hasToken /\ pageCount < maxPages

PgIdle ==
    [pc |-> "idle", maxPages |-> 0, pageCount |-> 0, hasToken |-> FALSE,
     listCalls |-> 0, nonEmpty |-> 0, fetched |-> 0, stop |-> "none",
     sizes |-> <<>>, tokens |-> <<>>]

\* syncUserEmails(userId, maxPages) reaches the do/while
PagesEnter(mp) ==
    /\ pg.pc = "idle"
    /\ pg' = [pg EXCEPT !.pc = "loop", !.maxPages = mp]
    /\ UNCHANGED <<rt, bgp, all, push, body, inbox, hdr, rd, varsMain>>

\* one iteration whose list call fails after its retries: the call raises
PagesListRaises ==
    /\ pg.pc = "loop"
    /\ pg' = [pg EXCEPT !.pc = "raised", !.pageCount = @ + 1, !.listCalls = @ + 1]
    /\ UNCHANGED <<rt, bgp, all, push, body, inbox, hdr, rd, varsMain>>

\* one iteration: pageCount++, the list call answers a page of `size` ids
\* with or without a next-page token, an empty page breaks, the messages
\* of the page are fetched (fetchOk) and the loop test is taken
PagesIterate(size, hasNext, fetchOk) ==
    /\ pg.pc = "loop"
    /\ LET p == [pg EXCEPT !.pageCount = @ + 1, !.listCalls = @ + 1,
                           !.hasToken = hasNext,
                           !.sizes = Append(@, size), !.tokens = Append(@, hasNext)]
       IN  pg' =
             IF size = 0 THEN [p EXCEPT !.pc = "fetched", !.stop = "empty"]
             ELSE IF ~fetchOk THEN [p EXCEPT !.pc = "raised"]
             ELSE LET q == [p EXCEPT !.nonEmpty = @ + 1, !.fetched = @ + size]
                  IN  IF LoopAgain(hasNext, q.pageCount, q.maxPages) THEN q
                      ELSE [q EXCEPT !.pc = "fetched",
                                     !.stop = IF hasNext THEN "ceiling" ELSE "notoken"]
    /\ UNCHANGED <<rt, bgp, all, push, body, inbox, hdr, rd, varsMain>>

(***************************************************************************)
(* The upstream mailboxes and the accounts the sync calls read.            *)
(***************************************************************************)
Users == {"u1", "u2", "u3", "u4"}
Calls == {"c1", "c2"}
Strategies == {"full", "delta", "history", "paginated"}

\* a mutant: every user has a token stored
AccessToken_anyUser(u) == "tok"

\* account.access_token of the user's google Account row ("" : none stored)
AccessToken(u) == IF u = "u3" THEN "" ELSE "tok"

\* account.email of the user's google Account row ("" : null)
AccountEmail(u) == IF u = "u1" THEN "u1@gmail.com" ELSE ""

\* messagesPerPage / maxMessages / pageSize, scaled
PageSize == 2
\* BATCH_SIZE (10 in the source), scaled
BATCH_SIZE == 2

NoLabels == [present |-> FALSE, ids |-> {}]
Labels(S) == [present |-> TRUE, ids |-> S]

\* users.messages.get: the GmailMessage of an upstream id
GmailMessageOf(u, id) ==
    CASE id = "m1" -> [id |-> "m1", threadId |-> "t1", internalDate |-> 3,
                       labelIds |-> Labels({"UNREAD", "IMPORTANT"}),
                       subject |-> "s1", from |-> "a", snippet |-> "sn1", text |-> "b1"]
      [] id = "m2" -> [id |-> "m2", threadId |-> "t1", internalDate |-> 1,
                       labelIds |-> Labels({"STARRED", "INBOX"}),
                       subject |-> "s2", from |-> "b", snippet |-> "sn2", text |-> "b2"]
      [] OTHER     -> [id |-> id, threadId |-> "t2", internalDate |-> 2,
                       labelIds |-> NoLabels,
                       subject |-> "s3", from |-> "a", snippet |-> "sn3", text |-> ""]

\* the ids users.messages.list walks through, newest first
Mailbox(u) ==
    CASE u = "u1" -> <<"m1", "m2", "m3">>
      [] u = "u2" -> <<"m1">>
      [] OTHER    -> <<>>

\* a page token is the offset of the page in the listing; 0 is no token
NoToken == 0

\* users.messages.list({maxResults, pageToken}): the ids of the page
ListIds(u, maxResults, token) ==
    LET box == Mailbox(u)
        lo == token + 1
        hi == IF token + maxResults < Len(box) THEN token + maxResults ELSE Len(box)
    IN  SubSeq(box, lo, hi)

\* ... and its nextPageToken
NextPageToken(u, maxResults, token) ==
    IF token + maxResults < Len(Mailbox(u)) THEN token + maxResults ELSE NoToken

\* fetchMessagesBatch: every id is fetched through retryWithBackoff and the
\* fetches of a batch are joined by Promise.all, so the call rejects as
\* soon as the fetch of one id still fails after its retries (failing);
\* otherwise it resolves to the messages, in the order of the ids
FetchMessagesBatch(ids, failing) ==
    IF \E k \in 1..Len(ids) : ids[k] \in failing
    THEN [ok |-> FALSE, messages |-> <<>>]
    ELSE [ok |-> TRUE, messages |-> ids]

\* a history record: the ids of its messagesAdded and of its messages
HistoryRecord(added, general) == [messagesAdded |-> added, messages |-> general]

\* users.history.list({startHistoryId, historyTypes: ['messageAdded']}):
\* response.data.history ?? []
HistoryRecords(u, startHistoryId) ==
    CASE u = "u1" /\ startHistoryId = "h1" ->
           <<HistoryRecord(<<"m3">>, <<"m3", "m1">>)>>
      [] u = "u1" /\ startHistoryId = "h2" ->
           <<HistoryRecord(<<"m2">>, <<"m2">>), HistoryRecord(<<"m2", "m1">>, <<>>)>>
      [] OTHER -> <<>>

RECURSIVE PushUnlessIncluded(_, _)
\* if (message.id && !messageIds.includes(message.id)) messageIds.push(message.id)
PushUnlessIncluded(messageIds, general) ==
    IF Len(general) = 0 THEN messageIds
    ELSE PushUnlessIncluded(
             IF \E k \in 1..Len(messageIds) : messageIds[k] = Head(general)
             THEN messageIds ELSE Append(messageIds, Head(general)),
             Tail(general))

RECURSIVE CollectIds(_, _)
\* for (const historyRecord of history): the ids of messagesAdded are
\* pushed as they come, those of messages unless already collected
CollectIds(history, messageIds) ==
    IF Len(history) = 0 THEN messageIds
    ELSE CollectIds(Tail(history),
                    PushUnlessIncluded(messageIds \o Head(history).messagesAdded,
                                       Head(history).messages))

\* the ids syncUserEmailsByHistory collects from the history records
HistoryIds(u, startHistoryId) == CollectIds(HistoryRecords(u, startHistoryId), <<>>)

HistoryCursors == {"h1", "h2", "h3"}

(***************************************************************************)
(* The rows of the store (part_000) and the per-message upsert.            *)
(***************************************************************************)
NoRow == <<>>

\* message.labelIds?.includes(label) ?? false
HasLabel(m, label) == m.labelIds.present /\ label \in m.labelIds.ids

\* the strategies whose copy of the upsert derives and writes isImportant
WritesImportant(strategy) == strategy = "paginated"

\* the strategies whose upsert, on conflict, updates the parent thread
PropagatesOnConflict(strategy) == strategy \in {"full", "paginated"}

\* tx.emailThread.create: the row of a new thread
NewThread(c, u, m, strategy) ==
    [id |-> <<c, m.threadId>>, userId |-> u, gmailThreadId |-> m.threadId,
     subject |-> m.subject, lastMessageAt |-> m.internalDate, snippet |-> m.snippet,
     isRead |-> ~HasLabel(m, "UNREAD"), isStarred |-> HasLabel(m, "STARRED"),
     isImportant |-> IF WritesImportant(strategy) THEN HasLabel(m, "IMPORTANT") ELSE FALSE]

\* a mutant: the update of a thread found leaves its flags as they were
UpdatedThread_keepsFlags(row, m, strategy) ==
    [row EXCEPT !.lastMessageAt = m.internalDate, !.snippet = m.snippet]

\* tx.emailThread.update({where: {id}, data})
UpdatedThread(row, m, strategy) ==
    [row EXCEPT !.isRead = ~HasLabel(m, "UNREAD"), !.isStarred = HasLabel(m, "STARRED"),
                !.isImportant = IF WritesImportant(strategy)
                                THEN HasLabel(m, "IMPORTANT") ELSE @,
                !.lastMessageAt = m.internalDate, !.snippet = m.snippet]

\* the nested thread: {update: {...}} of the upsert's update branch
PropagatedThread(row, m, strategy) ==
    [row EXCEPT !.isRead = ~HasLabel(m, "UNREAD"), !.isStarred = HasLabel(m, "STARRED"),
                !.isImportant = IF WritesImportant(strategy)
                                THEN HasLabel(m, "IMPORTANT") ELSE @]

\* the create branch of tx.emailMessage.upsert
NewMessage(c, u, m, threadRowId) ==
    [id |-> <<c, m.id>>, userId |-> u, threadId |-> threadRowId, gmailMessageId |-> m.id,
     internalDate |-> m.internalDate, from |-> m.from, subject |-> m.subject,
     snippet |-> m.snippet, textPlain |-> m.text]

\* a row written into a set of rows replaces the row of the same id
Put(rows, row) == {r \in rows : r.id /= row.id} \cup {row}

\* what a transaction reads: the committed rows under its own writes
View(committed, written) ==
    {r \in committed : \A w \in written : w.id /= r.id} \cup written

(***************************************************************************)
(* The sync calls.  A frame holds the locals of one call; a paginated      *)
(* call that has returned lives on as its background continuation (bg).    *)
(***************************************************************************)
\* MAX_PAGES of syncRemainingPagesInBackground
MAX_PAGES == 20

\* a mutant: the continuation goes on as long as a token comes back
ContinueLoop_noCeiling(hasToken, pageCount) == hasToken

\* a mutant: the ceiling test of the continuation admits one page too many
ContinueLoop_offByOne(hasToken, pageCount) == hasToken /\ pageCount <= MAX_PAGES

\* while (nextPageToken && pageCount < MAX_PAGES)
ContinueLoop(hasToken, pageCount) == hasToken /\ pageCount < MAX_PAGES

\* The names of the calls carry no meaning and entering a call touches
\* nothing shared, so of two concurrent calls the one named first is the
\* one with the smaller (user, strategy), and it is entered first.
CallOrder(c) == IF c = "c1" THEN 1 ELSE 2

UserRank(u) == CASE u = "u1" -> 1 [] u = "u2" -> 2 [] u = "u3" -> 3 [] OTHER -> 4

StrategyRank(s) ==
    CASE s = "full" -> 1 [] s = "delta" -> 2 [] s = "history" -> 3 [] OTHER -> 4

Rank(u, s) == 10 * UserRank(u) + StrategyRank(s)

CallIdle ==
    [pc |-> "idle", user |-> "u1", strategy |-> "full", bg |-> FALSE,
     continueInBackground |-> FALSE, maxPages |-> 0, startHistoryId |-> "",
     nextPageToken |-> NoToken, pageCount |-> 0, listCalls |-> 0,
     queue |-> <<>>, i |-> 0, j |-> 0, found |-> NoRow, txT |-> {}, txM |-> {},
     outcomes |-> <<>>, synced |-> 0, errors |-> 0,
     result |-> "none", error |-> "none", resSynced |-> 0, resErrors |-> 0,
     backgroundTaskStarted |-> FALSE, finalized |-> FALSE, bgError |-> "none"]

Min(a, b) == IF a < b THEN a ELSE b

\* full sync and the continuation persist in chunks of BATCH_SIZE; delta,
\* history and the first page of paginated sync persist in one transaction
Chunked(f) == f.strategy = "full" \/ f.bg

\* the transactions given {maxWait: 10000, timeout: 30000}: those of full
\* sync, of the first page of paginated sync and of the continuation
CarriesCeilings(f) == f.strategy \in {"full", "paginated"}

\* the end of the chunk that starts after message i of the queue
ChunkEnd(f, i) == IF Chunked(f) THEN Min(i + BATCH_SIZE, Len(f.queue)) ELSE Len(f.queue)

\* the locals of a call that has ended are gone: the frame keeps the
\* queue and the outcomes of the messages of its committed chunks
Ended(f) ==
    [f EXCEPT !.pc = "done", !.txT = {}, !.txM = {}, !.found = NoRow,
              !.j = f.i, !.outcomes = SubSeq(f.outcomes, 1, f.i),
              !.nextPageToken = NoToken, !.synced = 0, !.errors = 0]

\* a mutant: the catch block of the continuation rethrows as well
Raise_rethrows(f, why) ==
    [Ended(f) EXCEPT !.pc = "raised", !.result = "raised", !.error = why]

\* the call raises: the catch block logs and rethrows; inside the
\* continuation the catch block logs and swallows
Raise(f, why) ==
    IF f.bg
    THEN [Ended(f) EXCEPT !.bgError = why]
    ELSE [Ended(f) EXCEPT !.pc = "raised", !.result = "raised", !.error = why]

\* a mutant: the result reports no errors
Return_forgetsErrors(f) ==
    [Ended(f) EXCEPT !.result = "returned", !.resSynced = f.synced, !.resErrors = 0]

\* the call returns {synced, errors, ...}
Return(f) ==
    [Ended(f) EXCEPT !.result = "returned",
                     !.resSynced = f.synced, !.resErrors = f.errors]

\* the messages are fetched: the persistence loop starts, or with nothing
\* to persist the call goes on to the sync state
StartPersist(f) ==
    IF Len(f.queue) = 0 THEN [f EXCEPT !.pc = "state"]
    ELSE [f EXCEPT !.pc = "find", !.i = 0, !.j = 0]

\* while (nextPageToken && pageCount < MAX_PAGES) of the continuation
BgLoop(f) ==
    IF ContinueLoop(f.nextPageToken /= NoToken, f.pageCount)
    THEN [f EXCEPT !.pc = "page", !.queue = <<>>, !.outcomes = <<>>, !.i = 0, !.j = 0]
    ELSE [f EXCEPT !.pc = "state"]

\* getGmailClient: if (!account?.access_token) throw
Start(c, u, strategy, maxPages, cont, cursor) ==
    /\ call[c].pc = "idle"
    /\ \A d \in Calls : CallOrder(d) < CallOrder(c) =>
          /\ call[d].pc /= "idle"
          /\ Rank(call[d].user, call[d].strategy) <= Rank(u, strategy)
    /\ LET f == [call[c] EXCEPT !.user = u, !.strategy = strategy,
                                !.maxPages = IF strategy = "full" THEN maxPages ELSE 0,
                                !.continueInBackground = (strategy = "paginated" /\ cont),
                                !.startHistoryId =
                                    IF strategy = "history" THEN cursor ELSE ""]
       IN  call' = [call EXCEPT ![c] =
                      IF AccessToken(u) = "" THEN Raise(f, "credentials")
                      ELSE [f EXCEPT !.pc = IF strategy = "history" THEN "history"
                                            ELSE "page"]]
    /\ UNCHANGED <<varsSide, threads, messages, syncState, now>>

\* a mutant: delta sync takes the token of the response as the others do
TakesToken_deltaToo(strategy) == TRUE

\* const { messageIds } = await this.fetchMessageIds(gmail, maxMessages):
\* delta sync drops the nextPageToken of the response
TakesToken(strategy) == strategy /= "delta"

\* one list call and the fetch of its page, for the strategy of the frame;
\* listOk: the list call succeeds within its retries, failing: the ids
\* whose fetch does not
PageResult(f, listOk, failing) ==
    LET ids == ListIds(f.user, PageSize, f.nextPageToken)
        next == NextPageToken(f.user, PageSize, f.nextPageToken)
        got == FetchMessagesBatch(ids, failing)
        g == [f EXCEPT !.pageCount = IF f.strategy = "full" \/ f.bg THEN @ + 1 ELSE @,
                       !.listCalls = @ + 1]
        h == [g EXCEPT !.nextPageToken = IF TakesToken(f.strategy) THEN next ELSE @,
                       !.queue = f.queue \o got.messages]
    IN  IF ~listOk THEN Raise(g, "list")
        ELSE IF Len(ids) = 0
        THEN (CASE f.bg -> [g EXCEPT !.pc = "state", !.nextPageToken = next]
                [] f.strategy = "full" -> StartPersist([g EXCEPT !.nextPageToken = next])
                [] OTHER -> Return(g))
        ELSE IF ~got.ok
        THEN Raise([g EXCEPT !.nextPageToken = next], "fetch")
        ELSE IF f.strategy = "full" /\ LoopAgain(next /= NoToken, g.pageCount, f.maxPages)
        THEN h
        ELSE StartPersist(h)

PageStep(c, listOk, failing) ==
    /\ call[c].pc = "page"
    /\ call' = [call EXCEPT ![c] = PageResult(call[c], listOk, failing)]
    /\ UNCHANGED <<varsSide, threads, messages, syncState, now>>

\* a mutant: with no id collected the call goes on to the sync state
HistoryStep_finalizesEmpty(c, listOk, failing) ==
    /\ call[c].pc = "history"
    /\ LET f == call[c]
           ids == HistoryIds(f.user, f.startHistoryId)
           got == FetchMessagesBatch(ids, failing)
       IN  call' = [call EXCEPT ![c] =
                      IF ~listOk THEN Raise(f, "history")
                      ELSE IF Len(ids) = 0 THEN [f EXCEPT !.pc = "state"]
                      ELSE IF ~got.ok THEN Raise(f, "fetch")
                      ELSE StartPersist([f EXCEPT !.queue = got.messages])]
    /\ UNCHANGED <<varsSide, threads, messages, syncState, now>>

\* users.history.list, the collection of the ids and their fetch
HistoryStep(c, listOk, failing) ==
    /\ call[c].pc = "history"
    /\ LET f == call[c]
           ids == HistoryIds(f.user, f.startHistoryId)
           got == FetchMessagesBatch(ids, failing)
       IN  call' = [call EXCEPT ![c] =
                      IF ~listOk THEN Raise(f, "history")
                      ELSE IF Len(ids) = 0 THEN Return(f)
                      ELSE IF ~got.ok THEN Raise(f, "fetch")
                      ELSE StartPersist([f EXCEPT !.queue = got.messages])]
    /\ UNCHANGED <<varsSide, threads, messages, syncState, now>>

(***************************************************************************)
(* One chunk transaction.  A transaction reads the committed rows under    *)
(* its own writes (READ COMMITTED); a row it wrote is locked until it ends,*)
(* and so is the unique key of a row it inserted: another transaction      *)
(* writing that row or inserting that key waits.                           *)
(***************************************************************************)
\* the message the loop of the transaction is at
Current(f) == GmailMessageOf(f.user, f.queue[f.j + 1])

\* the rows another in-flight transaction has written
OthersThreads(c) == UNION {call[d].txT : d \in Calls \ {c}}
OthersMessages(c) == UNION {call[d].txM : d \in Calls \ {c}}

\* a mutant: the lookup matches the upstream thread id alone
MatchingThreads_anyUser(f, m) ==
    {r \in View(threads, f.txT) : r.gmailThreadId = m.threadId}

\* tx.emailThread.findFirst({where: {userId, gmailThreadId}})
MatchingThreads(f, m) ==
    {r \in View(threads, f.txT) : r.userId = f.user /\ r.gmailThreadId = m.threadId}

FindThread(c) ==
    /\ call[c].pc = "find"
    /\ LET f == call[c]
           hit == MatchingThreads(f, Current(f))
       IN  \E found \in IF hit = {} THEN {NoRow} ELSE {r.id : r \in hit} :
             call' = [call EXCEPT ![c] = [f EXCEPT !.pc = "write", !.found = found]]
    /\ UNCHANGED <<varsSide, threads, messages, syncState, now>>

\* a mutant: the store has no unique index on (userId, gmailThreadId)
ThreadKeyTaken_noIndex(rows, u, gmailThreadId) == FALSE

\* EmailThread_userId_gmailThreadId_key
ThreadKeyTaken(rows, u, gmailThreadId) ==
    \E r \in rows : r.userId = u /\ r.gmailThreadId = gmailThreadId

\* EmailMessage_userId_gmailMessageId_key
MessageKeyTaken(rows, u, gmailMessageId) ==
    \E r \in rows : r.userId = u /\ r.gmailMessageId = gmailMessageId

\* the thread statement of the frame: the update of the row found, or the
\* create; "wait" while another transaction holds the row or the key,
\* "raise" on a unique violation
ThreadStatement(c, f, m) ==
    IF f.found /= NoRow
    THEN IF \E r \in OthersThreads(c) : r.id = f.found
         THEN [kind |-> "wait"]
         ELSE LET row == CHOOSE r \in View(threads, f.txT) : r.id = f.found
              IN  [kind |-> "ok", row |-> UpdatedThread(row, m, f.strategy)]
    ELSE IF ThreadKeyTaken(OthersThreads(c), f.user, m.threadId)
         THEN [kind |-> "wait"]
         ELSE IF ThreadKeyTaken(View(threads, f.txT), f.user, m.threadId)
         THEN [kind |-> "raise"]
         ELSE [kind |-> "ok", row |-> NewThread(c, f.user, m, f.strategy)]

\* a mutant: the upsert never finds the row and always takes its create
\* branch
MatchingMessages_none(rows, u, gmailMessageId) == {}

\* where: {userId_gmailMessageId: {userId, gmailMessageId: message.id}}
MatchingMessages(rows, u, gmailMessageId) ==
    {r \in rows : r.userId = u /\ r.gmailMessageId = gmailMessageId}

\* a mutant: the update branch rewrites the headers and the body as well
RefreshedMessage_rewrites(old, m) ==
    [old EXCEPT !.snippet = m.snippet, !.from = m.from, !.subject = m.subject,
                !.textPlain = m.text, !.internalDate = m.internalDate]

\* the update branch of tx.emailMessage.upsert: update: {snippet}
RefreshedMessage(old, m) == [old EXCEPT !.snippet = m.snippet]

\* tx.emailMessage.upsert reading the rows T and M of the transaction:
\* the rows it leaves written, or "wait"
UpsertStatement(c, f, m, thread, T, M) ==
    LET hit == MatchingMessages(View(messages, M), f.user, m.id)
    IN  IF hit = {}
        THEN IF MessageKeyTaken(OthersMessages(c), f.user, m.id)
             THEN [kind |-> "wait"]
             ELSE [kind |-> "ok", T |-> T,
                   M |-> Put(M, NewMessage(c, f.user, m, thread.id))]
        ELSE LET old == CHOOSE r \in hit : TRUE
                 parent == CHOOSE r \in View(threads, T) : r.id = old.threadId
             IN  IF \/ \E r \in OthersMessages(c) : r.id = old.id
                    \/ /\ PropagatesOnConflict(f.strategy)
                       /\ \E r \in OthersThreads(c) : r.id = parent.id
                 THEN [kind |-> "wait"]
                 ELSE [kind |-> "ok",
                       T |-> IF PropagatesOnConflict(f.strategy)
                             THEN Put(T, PropagatedThread(parent, m, f.strategy))
                             ELSE T,
                       M |-> Put(M, RefreshedMessage(old, m))]

\* a mutant: an exception leaves the loop of the transaction, and the
\* messages after it in the chunk are not processed
Advance_abortsChunk(f, ok, T, M) ==
    LET g == [f EXCEPT !.txT = T, !.txM = M, !.found = NoRow,
                       !.j = IF ok THEN @ + 1 ELSE ChunkEnd(f, f.i),
                       !.outcomes = IF ok THEN Append(@, TRUE)
                                    ELSE @ \o [k \in 1..(ChunkEnd(f, f.i) - f.j) |-> FALSE],
                       !.synced = IF ok /\ ~f.bg THEN @ + 1 ELSE @,
                       !.errors = IF ~ok /\ ~f.bg THEN @ + 1 ELSE @]
    IN  [g EXCEPT !.pc = IF g.j = ChunkEnd(f, f.i) THEN "commit" ELSE "find"]

\* the frame after the try/catch around one message: synced++ or errors++
\* (the continuation counts nothing), then the next message or the commit
Advance(f, ok, T, M) ==
    LET g == [f EXCEPT !.txT = T, !.txM = M, !.j = @ + 1, !.found = NoRow,
                       !.outcomes = Append(@, ok),
                       !.synced = IF ok /\ ~f.bg THEN @ + 1 ELSE @,
                       !.errors = IF ~ok /\ ~f.bg THEN @ + 1 ELSE @]
    IN  [g EXCEPT !.pc = IF g.j = ChunkEnd(f, f.i) THEN "commit" ELSE "find"]

\* the body of the try block after findFirst, for one message; `fault`
\* is where an exception is raised, if any
PersistMessage(c, fault) ==
    /\ call[c].pc = "write"
    /\ LET f == call[c]
           m == Current(f)
           t == ThreadStatement(c, f, m)
       IN  IF fault = "thread" \/ t.kind = "raise"
           THEN /\ fault = "thread"
                /\ call' = [call EXCEPT ![c] = Advance(f, FALSE, f.txT, f.txM)]
           ELSE /\ t.kind = "ok"
                /\ LET T1 == Put(f.txT, t.row)
                       u == UpsertStatement(c, f, m, t.row, T1, f.txM)
                   IN  IF fault = "upsert"
                       THEN call' = [call EXCEPT ![c] = Advance(f, FALSE, T1, f.txM)]
                       ELSE /\ u.kind = "ok"
                            /\ call' = [call EXCEPT ![c] = Advance(f, TRUE, u.T, u.M)]
    /\ UNCHANGED <<varsSide, threads, messages, syncState, now>>

\* a mutant: the continuation is launched whether or not the caller asked
LaunchesContinuation_unasked(f) == f.nextPageToken /= NoToken

\* if (continueInBackground && nextPageToken)
LaunchesContinuation(f) == f.continueInBackground /\ f.nextPageToken /= NoToken

\* the frame after the transactions of the queue are over
AfterPersist(f) ==
    CASE f.bg -> BgLoop(f)
      [] f.strategy = "paginated" ->
           \* the first page is in: launch the continuation if asked and return
           LET r == [Return(f) EXCEPT !.backgroundTaskStarted = LaunchesContinuation(f)]
           IN  IF r.backgroundTaskStarted
               THEN BgLoop([r EXCEPT !.bg = TRUE, !.pageCount = 1,
                                     !.nextPageToken = f.nextPageToken])
               ELSE r
      [] OTHER -> [f EXCEPT !.pc = "state"]

\* the callback of $transaction returns and the transaction commits
Commit(c) ==
    /\ call[c].pc = "commit"
    /\ threads' = View(threads, call[c].txT)
    /\ messages' = View(messages, call[c].txM)
    /\ LET f == [call[c] EXCEPT !.txT = {}, !.txM = {}, !.i = call[c].j]
       IN  call' = [call EXCEPT ![c] =
                      IF f.j < Len(f.queue) THEN [f EXCEPT !.pc = "find"]
                      ELSE AfterPersist(f)]
    /\ UNCHANGED <<varsSide, syncState, now>>

\* a mutant: the writes made before the ceiling was hit stay in the store
TxFail_keepsWrites(c) ==
    /\ call[c].pc \in {"find", "write", "commit"}
    /\ threads' = View(threads, call[c].txT)
    /\ messages' = View(messages, call[c].txM)
    /\ call' = [call EXCEPT ![c] = Raise(call[c], "tx")]
    /\ UNCHANGED <<varsSide, syncState, now>>

\* the transaction exceeds maxWait or timeout, or its commit fails: it is
\* rolled back as a unit and $transaction rejects
TxFail(c) ==
    /\ call[c].pc \in {"find", "write", "commit"}
    /\ call' = [call EXCEPT ![c] = Raise(call[c], "tx")]
    /\ UNCHANGED <<varsSide, threads, messages, syncState, now>>

\* account?.email ?? 'unknown@gmail.com'
GmailAddress(u) == IF AccountEmail(u) = "" THEN "unknown@gmail.com" ELSE AccountEmail(u)

\* a mutant: the create branch stores a history cursor in every strategy
NewSyncState_storesCursor(f, t) ==
    [userId |-> f.user, provider |-> "google", email |-> GmailAddress(f.user),
     historyId |-> "h1",
     lastFullSync |-> IF f.strategy \in {"full", "paginated"} THEN t ELSE 0,
     lastDeltaSync |-> IF f.strategy \in {"delta", "history"} THEN t ELSE 0]

\* a mutant: the create branch leaves lastFullSync null
NewSyncState_noFullSync(f, t) ==
    [userId |-> f.user, provider |-> "google", email |-> GmailAddress(f.user),
     historyId |-> IF f.strategy = "history" THEN f.startHistoryId ELSE "",
     lastFullSync |-> 0,
     lastDeltaSync |-> IF f.strategy \in {"delta", "history"} THEN t ELSE 0]

\* the create branch of tx.gmailSyncState.upsert
NewSyncState(f, t) ==
    [userId |-> f.user, provider |-> "google", email |-> GmailAddress(f.user),
     historyId |-> IF f.strategy = "history" THEN f.startHistoryId ELSE "",
     lastFullSync |-> IF f.strategy \in {"full", "paginated"} THEN t ELSE 0,
     lastDeltaSync |-> IF f.strategy \in {"delta", "history"} THEN t ELSE 0]

\* a mutant: the update branch of history sync leaves the stored cursor
UpdatedSyncState_keepsCursor(row, f, t) ==
    IF f.strategy \in {"delta", "history"} THEN [row EXCEPT !.lastDeltaSync = t]
    ELSE [row EXCEPT !.lastFullSync = t]

\* the update branch of tx.gmailSyncState.upsert
UpdatedSyncState(row, f, t) ==
    CASE f.strategy = "history" ->
           [row EXCEPT !.historyId = f.startHistoryId, !.lastDeltaSync = t]
      [] f.strategy = "delta" -> [row EXCEPT !.lastDeltaSync = t]
      [] OTHER -> [row EXCEPT !.lastFullSync = t]

\* tx.gmailSyncState.upsert({where: {userId_provider_email}})
UpsertSyncState(rows, f, t) ==
    LET hit == {r \in rows : r.userId = f.user /\ r.provider = "google"
                             /\ r.email = GmailAddress(f.user)}
    IN  IF hit = {} THEN rows \cup {NewSyncState(f, t)}
        ELSE (rows \ hit) \cup {UpdatedSyncState(r, f, t) : r \in hit}

\* the account lookup and the sync state transaction, then the return
FinalizeSyncState(c, ok) ==
    /\ call[c].pc = "state"
    /\ LET f == call[c]
       IN  IF ok
           THEN /\ now' = now + 1
                /\ syncState' = UpsertSyncState(syncState, f, now + 1)
                /\ call' = [call EXCEPT ![c] =
                              IF f.bg THEN [Ended(f) EXCEPT !.finalized = TRUE]
                              ELSE Return([f EXCEPT !.finalized = TRUE])]
           ELSE /\ call' = [call EXCEPT ![c] = Raise(f, "state")]
                /\ UNCHANGED <<syncState, now>>
    /\ UNCHANGED <<varsSide, threads, messages>>

(***************************************************************************)
(* The page loop of syncRemainingPagesInBackground (part_002 lines         *)
(* 1080-1231) on its own, over upstream pages given by their size and by   *)
(* whether a nextPageToken comes with them: the mailboxes of Spec are too  *)
(* short to reach MAX_PAGES.                                               *)
(***************************************************************************)
\* the sizes a page of the upstream can have (pageSize = 50)
BackgroundPageSizes == {0, 20, 50}

BgpIdle ==
    [pc |-> "idle", pageCount |-> 0, hasToken |-> FALSE, listCalls |-> 0,
     firstPage |-> 0, persisted |-> 0, stop |-> "none",
     finalized |-> FALSE, caught |-> FALSE]

\* a mutant: the break on an empty page leaves the method, past the update
\* of the sync state
ReachesSyncState_notOnBreak(stop) == stop \notin {"error", "empty"}

\* the statements after the loop are reached when the loop test fails and
\* when an empty page breaks out of the loop, not when an error is thrown
ReachesSyncState(stop) == stop /= "error"

\* the continuation ends: the loop is left by `stop`; the account lookup
\* and the upsert of lastFullSync follow (dbOk: they succeed), and the
\* catch block logs whatever was thrown
BackgroundFinish(p, stop, dbOk) ==
    [p EXCEPT !.pc = "done", !.stop = stop,
              !.finalized = ReachesSyncState(stop) /\ dbOk,
              !.caught = (stop = "error") \/ (ReachesSyncState(stop) /\ ~dbOk)]

\* syncUserEmailsWithPagination has listed its first page (one
\* fetchMessageIds call), persisted it and, a token remaining, launches the
\* continuation: nextPageToken = startingPageToken, pageCount = 1
BackgroundEnter(size) ==
    /\ bgp.pc = "idle"
    /\ size > 0
    /\ bgp' = [bgp EXCEPT !.pc = "loop", !.pageCount = 1, !.hasToken = TRUE,
                          !.listCalls = 1, !.firstPage = size]
    /\ UNCHANGED <<rt, pg, all, push, body, inbox, hdr, rd, varsMain>>

\* the loop test fails: the sync state is written and the continuation ends
BackgroundLeave(dbOk) ==
    /\ bgp.pc = "loop"
    /\ ~ContinueLoop(bgp.hasToken, bgp.pageCount)
    /\ bgp' = BackgroundFinish(bgp, IF bgp.hasToken THEN "ceiling" ELSE "notoken", dbOk)
    /\ UNCHANGED <<rt, pg, all, push, body, inbox, hdr, rd, varsMain>>

\* one iteration: pageCount++, the list call (listOk) answers a page of
\* `size` ids with or without a token, an empty page breaks, the messages
\* are fetched and persisted in chunks (persistOk); an error is swallowed
\* by the catch block and ends the continuation
BackgroundIterate(size, hasNext, listOk, persistOk, dbOk) ==
    /\ bgp.pc = "loop"
    /\ bgp.pageCount < MaxBackgroundPages
    /\ ContinueLoop(bgp.hasToken, bgp.pageCount)
    /\ LET p == [bgp EXCEPT !.pageCount = @ + 1, !.listCalls = @ + 1]
           q == [p EXCEPT !.hasToken = hasNext]
       IN  bgp' =
             IF ~listOk THEN BackgroundFinish(p, "error", dbOk)
             ELSE IF size = 0 THEN BackgroundFinish(q, "empty", dbOk)
             ELSE IF ~persistOk THEN BackgroundFinish(q, "error", dbOk)
             ELSE [q EXCEPT !.persisted = @ + size]
    /\ UNCHANGED <<rt, pg, all, push, body, inbox, hdr, rd, varsMain>>

(***************************************************************************)
(* syncAllUsersEmails (part_002 lines 731-767) on its own, over the        *)
(* outcomes of the users' full syncs: syncUserEmails returns {synced,      *)
(* errors, totalPages} or raises.                                          *)
(***************************************************************************)
\* db.user.findMany({where: {accounts: {some: {provider: 'google'}}}})
EnumeratedUsers(n) == SubSeq(<<"u1", "u2", "u3", "u4">>, 1, n)

\* what await this.syncUserEmails(user.id) can come to
SyncOutcomes ==
    [raised : {FALSE}, synced : {0, 1, 3}, errors : {0, 1}, totalPages : {1, 2}]
        \cup {[raised |-> TRUE, synced |-> 0, errors |-> 0, totalPages |-> 0]}

AllIdle ==
    [pc |-> "idle", users |-> <<>>, k |-> 0, totalSynced |-> 0, totalErrors |-> 0,
     totalPages |-> 0, totalUsers |-> 0, results |-> <<>>]

\* the users are enumerated and the totals start at 0
AllEnter(n) ==
    /\ all.pc = "idle"
    /\ all' = [all EXCEPT !.pc = "loop", !.users = EnumeratedUsers(n)]
    /\ UNCHANGED <<rt, pg, bgp, push, body, inbox, hdr, rd, varsMain>>

\* a mutant: the error of one user leaves the loop over the users
AllOnRaise_stops(a) ==
    [a EXCEPT !.totalErrors = @ + 1, !.k = Len(a.users)]

\* catch (error) { totalErrors++ } and the next user
AllOnRaise(a) ==
    [a EXCEPT !.totalErrors = @ + 1, !.k = @ + 1]

\* totalSynced += result.synced; totalErrors += result.errors;
\* totalPages += result.totalPages and the next user
AllOnReturn(a, o) ==
    [a EXCEPT !.totalSynced = @ + o.synced, !.totalErrors = @ + o.errors,
              !.totalPages = @ + o.totalPages, !.k = @ + 1]

\* one iteration of for (const user of users): the full sync of the user
\* is awaited and comes to outcome o
AllSyncUser(o) ==
    /\ all.pc = "loop"
    /\ all.k < Len(all.users)
    /\ LET a == [all EXCEPT !.results =
                     Append(@, [user |-> all.users[all.k + 1], outcome |-> o])]
       IN  all' = IF o.raised THEN AllOnRaise(a) ELSE AllOnReturn(a, o)
    /\ UNCHANGED <<rt, pg, bgp, push, body, inbox, hdr, rd, varsMain>>

\* return {totalUsers: users.length, totalSynced, totalErrors, totalPages}
AllReturn ==
    /\ all.pc = "loop"
    /\ all.k >= Len(all.users)
    /\ all' = [all EXCEPT !.pc = "returned", !.totalUsers = Len(all.users)]
    /\ UNCHANGED <<rt, pg, bgp, push, body, inbox, hdr, rd, varsMain>>

(***************************************************************************)
(* The push webhook (src/app/api/gmail/push/route.ts), one notification    *)
(* after another, over the envelopes Pub/Sub can post and the outcomes of  *)
(* the sync it awaits.  The sync is taken by its effect on the Sync State: *)
(* a history or delta sync that persisted messages upserts the row, one    *)
(* that found nothing or raised leaves it.                                 *)
(***************************************************************************)
\* the request bodies: not JSON, JSON without message.data, data that does
\* not decode to JSON, and data that decodes to a payload
Envelopes == {"notJson", "noData", "badData", "payload"}
\* payload.emailAddress ("" : absent)
PayloadAddresses == {"", "u1@gmail.com", "nobody@gmail.com"}
\* payload.historyId ("" : absent)
PayloadCursors == {"", "h2", "h3"}
\* result of the awaited sync: it raises, it finds nothing to sync, or it
\* persists messages and writes the Sync State
PushSyncOutcomes == {"raises", "nothing", "synced"}

\* NextResponse.json(body) without init answers 200
StatusOk == 200
\* { status: 400 }
StatusBadRequest == 400
\* { status: 404 }
StatusNotFound == 404
\* syncUserEmailsDelta(userId, 50)
PushDeltaMessages == 50

PushIdle ==
    [pc |-> "idle", handled |-> 0, emailAddress |-> "", historyId |-> "",
     userId |-> "", lastHistoryId |-> "", method |-> "none", maxMessages |-> 0,
     calledWith |-> "", syncs |-> 0, status |-> 0, success |-> FALSE,
     failure |-> "none"]

\* the handler answers and is done with the notification
Respond(p, status, success, failure) ==
    [p EXCEPT !.pc = "responded", !.status = status, !.success = success,
              !.failure = failure]

\* return NextResponse.json({error: ...}, {status})
RejectWith(p, status, failure) == Respond(p, status, FALSE, failure)

\* the outer catch: return NextResponse.json({success: false, ...})
OuterCatch(p, failure) == Respond(p, StatusOk, FALSE, failure)

\* the catch around the sync: return NextResponse.json({success: false, ...})
SyncCatch(p, failure) == Respond(p, StatusOk, FALSE, failure)

\* request.json(), the test of body.message?.data, the decoding of the
\* payload and the test of emailAddress and historyId
PushReceive(envelope, emailAddress, historyId) ==
    /\ push.pc = "idle"
    /\ push.handled < MaxNotifications
    /\ envelope /= "payload" => emailAddress = "" /\ historyId = ""
    /\ LET p == [PushIdle EXCEPT !.handled = push.handled + 1,
                                 !.emailAddress = emailAddress,
                                 !.historyId = historyId]
       IN  push' =
             CASE envelope = "notJson" -> OuterCatch(p, "envelope")
               [] envelope = "noData" -> RejectWith(p, StatusBadRequest, "envelope")
               [] envelope = "badData" -> OuterCatch(p, "envelope")
               [] OTHER ->
                    IF emailAddress = "" \/ historyId = ""
                    THEN RejectWith(p, StatusBadRequest, "payload")
                    ELSE [p EXCEPT !.pc = "user"]
    /\ UNCHANGED <<rt, pg, bgp, all, body, inbox, hdr, rd, threads, messages, syncState, call, now>>

\* db.user.findFirst({where: {accounts: {some: {provider, email}}}})
UsersByAddress(emailAddress) ==
    {u \in Users : AccountEmail(u) /= "" /\ AccountEmail(u) = emailAddress}

PushFindUser(dbOk) ==
    /\ push.pc = "user"
    /\ push' =
          IF ~dbOk THEN OuterCatch(push, "database")
          ELSE IF UsersByAddress(push.emailAddress) = {}
          THEN RejectWith(push, StatusNotFound, "mailbox")
          ELSE [push EXCEPT !.pc = "cursor",
                            !.userId = CHOOSE u \in UsersByAddress(push.emailAddress) : TRUE]
    /\ UNCHANGED <<rt, pg, bgp, all, body, inbox, hdr, rd, threads, messages, syncState, call, now>>

\* db.gmailSyncState.findFirst({where: {userId, provider: 'google'}})
StateRowsOf(u) == {r \in syncState : r.userId = u /\ r.provider = "google"}

\* a mutant: the webhook takes the history path whatever is on record
PushMethod_alwaysHistory(lastHistoryId) == "history"

\* if (!lastHistoryId) delta, else history
PushMethod(lastHistoryId) == IF lastHistoryId = "" THEN "delta" ELSE "history"

\* the Sync State row is read and the sync to await is chosen
PushReadCursor(dbOk) ==
    /\ push.pc = "cursor"
    /\ IF ~dbOk THEN push' = SyncCatch(push, "database")
       ELSE \E last \in IF StateRowsOf(push.userId) = {} THEN {""}
                         ELSE {r.historyId : r \in StateRowsOf(push.userId)} :
              push' = [push EXCEPT !.pc = "sync", !.lastHistoryId = last,
                                   !.method = PushMethod(last)]
    /\ UNCHANGED <<rt, pg, bgp, all, body, inbox, hdr, rd, threads, messages, syncState, call, now>>

\* the frame of the sync call the webhook awaits
PushCall(p) ==
    [CallIdle EXCEPT !.user = p.userId, !.strategy = p.method,
                     !.startHistoryId = IF p.method = "history"
                                        THEN p.lastHistoryId ELSE ""]

\* a mutant: the history path hands the cursor of the payload to the sync
PushCursorArgument_fromPayload(p) == p.historyId

\* syncUserEmailsByHistory(userId, lastHistoryId)
PushCursorArgument(p) == p.lastHistoryId

\* await gmailService.syncUserEmailsDelta(userId, 50) or
\* await gmailService.syncUserEmailsByHistory(userId, lastHistoryId),
\* and the answer
PushSync(outcome) ==
    /\ push.pc = "sync"
    /\ LET p == [push EXCEPT !.syncs = @ + 1,
                             !.maxMessages = IF push.method = "delta"
                                             THEN PushDeltaMessages ELSE 0,
                             !.calledWith = IF push.method = "history"
                                            THEN PushCursorArgument(push) ELSE ""]
           f == [PushCall(push) EXCEPT !.startHistoryId = p.calledWith]
       IN  /\ push' = IF outcome = "raises" THEN SyncCatch(p, "sync")
                      ELSE Respond(p, StatusOk, TRUE, "none")
           /\ IF outcome = "synced"
              THEN /\ now' = now + 1
                   /\ syncState' = UpsertSyncState(syncState, f, now + 1)
              ELSE UNCHANGED <<syncState, now>>
    /\ UNCHANGED <<rt, pg, bgp, all, body, inbox, hdr, rd, threads, messages, call>>

\* the next notification is posted
PushNext ==
    /\ push.pc = "responded"
    /\ push.handled < MaxNotifications
    /\ push' = [PushIdle EXCEPT !.handled = push.handled]
    /\ UNCHANGED <<rt, pg, bgp, all, body, inbox, hdr, rd, threads, messages, syncState, call, now>>

\* syncUserEmailsByHistory(u, cursor) is called directly, persists messages
\* and returns: the only way a cursor comes on record
PushDirectHistorySync(u, cursor) ==
    /\ push.pc = "idle"
    /\ \A r \in syncState : r.historyId = ""
    /\ now' = now + 1
    /\ syncState' = UpsertSyncState(syncState,
                        [CallIdle EXCEPT !.user = u, !.strategy = "history",
                                         !.startHistoryId = cursor], now + 1)
    /\ UNCHANGED <<rt, pg, bgp, all, body, inbox, hdr, rd, threads, messages, call, push>>

(***************************************************************************)
(* extractEmailBody (part_002 lines 182-225) over payloads whose parts     *)
(* hold up to two nested parts each.  body.data is base64; html and text   *)
(* are variables of the enclosing call that every level of                 *)
(* extractFromParts assigns.                                               *)
(***************************************************************************)
\* Buffer.from(data, 'base64').toString()
Base64Decode(data) ==
    CASE data = "QQ==" -> "A" [] data = "Qg==" -> "B" [] data = "Qw==" -> "C"
      [] OTHER -> ""

\* a part without parts of its own
Leaf(mimeType, data) == [mimeType |-> mimeType, data |-> data, parts |-> <<>>]

\* the parts a part can hold
NestedParts ==
    {Leaf("text/html", "QQ=="), Leaf("text/html", "Qg=="),
     Leaf("text/plain", "Qw=="), Leaf("multipart/mixed", "")}

NestedLists ==
    {<<>>} \cup {<<a>> : a \in NestedParts}
           \cup {<<a, b>> : a \in NestedParts, b \in NestedParts}

\* the parts at the top of a payload
TopParts ==
    {[mimeType |-> k[1], data |-> k[2], parts |-> l] :
        k \in {<<"multipart/alternative", "">>, <<"text/html", "Qw==">>,
               <<"text/plain", "QQ==">>},
        l \in NestedLists}

PartLists == UNION {[1..n -> TopParts] : n \in 0..MaxParts}

\* the payloads: with parts, or with a body of their own and a
\* content-type header that names html or not
Payloads ==
    {[hasParts |-> TRUE, parts |-> l, data |-> "", htmlHeader |-> FALSE] :
        l \in PartLists}
    \cup {[hasParts |-> FALSE, parts |-> <<>>, data |-> d, htmlHeader |-> h] :
            d \in {"", "Qg=="}, h \in BOOLEAN}

\* a || b on strings
JsOr(a, b) == IF a /= "" THEN a ELSE b

RECURSIVE ExtractFromParts(_, _)
\* extractFromParts(parts) entered with html and text as in acc: the
\* values of html and text when it returns
ExtractFromParts(parts, acc) ==
    IF Len(parts) = 0 THEN acc
    ELSE LET part == Head(parts)
             own == IF part.mimeType = "text/html" /\ part.data /= ""
                    THEN [acc EXCEPT !.html = Base64Decode(part.data)]
                    ELSE IF part.mimeType = "text/plain" /\ part.data /= ""
                    THEN [acc EXCEPT !.text = Base64Decode(part.data)]
                    ELSE acc
             after ==
                 IF Len(part.parts) > 0
                 THEN LET nested == ExtractFromParts(part.parts, own)
                      \* the nested call has assigned html and text already
                      IN  [html |-> JsOr(nested.html, nested.html),
                           text |-> JsOr(nested.text, nested.text)]
                 ELSE own
         IN  ExtractFromParts(Tail(parts), after)

\* extractEmailBody(payload)
ExtractEmailBody(payload) ==
    LET empty == [html |-> "", text |-> ""]
    IN  IF payload.hasParts THEN ExtractFromParts(payload.parts, empty)
        ELSE IF payload.data /= ""
        THEN IF payload.htmlHeader
             THEN [empty EXCEPT !.html = Base64Decode(payload.data)]
             ELSE [empty EXCEPT !.text = Base64Decode(payload.data)]
        ELSE empty

BodyIdle ==
    [pc |-> "idle", payload |-> [hasParts |-> FALSE, parts |-> <<>>, data |-> "",
                                 htmlHeader |-> FALSE],
     html |-> "", text |-> ""]

\* extractEmailBody(payload) is called and returns {html, text}
BodyExtract(payload) ==
    /\ body.pc = "idle"
    /\ body' = [pc |-> "returned", payload |-> payload,
                html |-> ExtractEmailBody(payload).html,
                text |-> ExtractEmailBody(payload).text]
    /\ UNCHANGED <<rt, pg, bgp, all, push, inbox, hdr, rd, varsMain>>

(***************************************************************************)
(* parseEmailHeaders (part_002 lines 166-177) over header lists.           *)
(***************************************************************************)
HeaderNames == {"From", "FROM", "from", "To", "Cc", "BCC", "Subject", "Date", "X-Mailer"}
HeaderValues == {"a", "b"}
HeaderLists ==
    UNION {[1..n -> [name : HeaderNames, value : HeaderValues]] : n \in 0..MaxHeaders}

\* a mutant: the names are taken as they come
ToLowerCase_asIs(name) == name

\* h.name.toLowerCase()
ToLowerCase(name) ==
    CASE name \in {"From", "FROM", "from"} -> "from"
      [] name = "To" -> "to"
      [] name = "Cc" -> "cc"
      [] name = "BCC" -> "bcc"
      [] name = "Subject" -> "subject"
      [] name = "Date" -> "date"
      [] name = "X-Mailer" -> "x-mailer"
      [] OTHER -> name

\* map.set(key, value)
MapSet(map, key, value) ==
    [k \in DOMAIN map \cup {key} |-> IF k = key THEN value ELSE map[k]]

RECURSIVE NewMap(_)
\* new Map(entries): the entries are set one after another
NewMap(entries) ==
    IF Len(entries) = 0 THEN [k \in {} |-> ""]
    ELSE LET last == entries[Len(entries)]
         IN  MapSet(NewMap(SubSeq(entries, 1, Len(entries) - 1)), last[1], last[2])

\* headerMap.get(key) ?? ''
GetOrEmpty(map, key) == IF key \in DOMAIN map THEN map[key] ELSE ""

\* parseEmailHeaders(headers)
ParseEmailHeaders(headers) ==
    LET headerMap == NewMap([k \in 1..Len(headers) |->
                                <<ToLowerCase(headers[k].name), headers[k].value>>])
    IN  [from |-> GetOrEmpty(headerMap, "from"), to |-> GetOrEmpty(headerMap, "to"),
         cc |-> GetOrEmpty(headerMap, "cc"), bcc |-> GetOrEmpty(headerMap, "bcc"),
         subject |-> GetOrEmpty(headerMap, "subject"),
         date |-> GetOrEmpty(headerMap, "date")]

HeadersIdle ==
    [pc |-> "idle", headers |-> <<>>,
     parsed |-> [from |-> "", to |-> "", cc |-> "", bcc |-> "", subject |-> "",
                 date |-> ""]]

\* parseEmailHeaders(headers) is called and returns
HeadersParse(headers) ==
    /\ hdr.pc = "idle"
    /\ hdr' = [pc |-> "returned", headers |-> headers,
               parsed |-> ParseEmailHeaders(headers)]
    /\ UNCHANGED <<rt, pg, bgp, all, push, body, inbox, rd, varsMain>>

(***************************************************************************)
(* getInboxTotalCount (part_002 lines 879-911): users.labels.get through   *)
(* retryWithBackoff with its default budget, and in the catch block the    *)
(* fallback users.messages.list.                                           *)
(***************************************************************************)
\* maxRetries = 3
DefaultMaxRetries == 3

\* the errors an upstream call of getInboxTotalCount is answered with
InboxErrors ==
    {[hasStatus |-> TRUE, status |-> st, retryAfter |-> "absent", n |-> 0] :
        st \in {404, 429, 503}}
      \cup {[hasStatus |-> FALSE, status |-> 0, retryAfter |-> "absent", n |-> 0]}

\* response.data.messagesTotal and response.data.resultSizeEstimate
\* (-1 : undefined)
InboxCounts == {-1, 0, 7}

\* count ?? 0
CountOrZero(n) == IF n = -1 THEN 0 ELSE n

InboxIdle ==
    [pc |-> "idle", user |-> "u1", attempt |-> 0, calls |-> <<>>, result |-> 0]

\* an upstream call as the model records it: the method, whether it was
\* issued by the operation handed to retryWithBackoff, and its answer or
\* the error it raised
UpstreamCall(api, wrapped, ok, err) ==
    [api |-> api, wrapped |-> wrapped, ok |-> ok, err |-> err]

\* getInboxTotalCount(u) is entered; getGmailClient throws for a user
\* without token, in the try block and again in the fallback: return 0
InboxEnter(u) ==
    /\ inbox.pc = "idle"
    /\ inbox' = IF AccessToken(u) = ""
                THEN [inbox EXCEPT !.pc = "returned", !.user = u, !.result = 0]
                ELSE [inbox EXCEPT !.pc = "labels", !.user = u]
    /\ UNCHANGED <<rt, pg, bgp, all, push, body, hdr, rd, varsMain>>

\* users.labels.get answers: return response.data.messagesTotal ?? 0
InboxLabelsReturns(total) ==
    /\ inbox.pc = "labels"
    /\ inbox' = [inbox EXCEPT !.pc = "returned", !.result = CountOrZero(total),
                              !.calls = Append(@, UpstreamCall("labels.get", TRUE, TRUE, NoError))]
    /\ UNCHANGED <<rt, pg, bgp, all, push, body, hdr, rd, varsMain>>

\* users.labels.get raises e: retryWithBackoff sleeps and calls again, or
\* rethrows into the catch block of getInboxTotalCount
InboxLabelsRaises(e) ==
    /\ inbox.pc = "labels"
    /\ LET r == [inbox EXCEPT !.calls = Append(@, UpstreamCall("labels.get", TRUE, FALSE, e))]
       IN  inbox' = IF BudgetExhausted(inbox.attempt, DefaultMaxRetries) \/ ~IsRetryable(e)
                    THEN [r EXCEPT !.pc = "fallback"]
                    ELSE [r EXCEPT !.attempt = @ + 1]
    /\ UNCHANGED <<rt, pg, bgp, all, push, body, hdr, rd, varsMain>>

\* the fallback users.messages.list({maxResults: 1, labelIds: ['INBOX']})
\* answers: return response.data.resultSizeEstimate ?? 0
InboxFallbackReturns(estimate) ==
    /\ inbox.pc = "fallback"
    /\ inbox' = [inbox EXCEPT !.pc = "returned", !.result = CountOrZero(estimate),
                              !.calls = Append(@, UpstreamCall("messages.list", FALSE, TRUE, NoError))]
    /\ UNCHANGED <<rt, pg, bgp, all, push, body, hdr, rd, varsMain>>

\* the fallback list raises e: the inner catch logs and returns 0
InboxFallbackRaises(e) ==
    /\ inbox.pc = "fallback"
    /\ inbox' = [inbox EXCEPT !.pc = "returned", !.result = 0,
                              !.calls = Append(@, UpstreamCall("messages.list", FALSE, FALSE, e))]
    /\ UNCHANGED <<rt, pg, bgp, all, push, body, hdr, rd, varsMain>>

(***************************************************************************)
(* The read accessors of the email router (src/server/api/routers/email.ts)*)
(* over the committed rows: getAll, getByUserPaginated and getEmailById,   *)
(* each called for the user of the session.                                *)
(***************************************************************************)
\* include: {thread: {select: {isRead, isStarred, isImportant}}}
IncludeThread(r, T) ==
    LET t == CHOOSE t \in T : t.id = r.threadId
    IN  [id |-> r.id, userId |-> r.userId, threadId |-> r.threadId,
         gmailMessageId |-> r.gmailMessageId, internalDate |-> r.internalDate,
         from |-> r.from, subject |-> r.subject, snippet |-> r.snippet,
         textPlain |-> r.textPlain,
         thread |-> [isRead |-> t.isRead, isStarred |-> t.isStarred,
                     isImportant |-> t.isImportant]]

RECURSIVE OrderByInternalDateDesc(_)
\* orderBy: {internalDate: 'desc'}
OrderByInternalDateDesc(rows) ==
    IF rows = {} THEN <<>>
    ELSE LET top == CHOOSE r \in rows : \A q \in rows : q.internalDate <= r.internalDate
         IN  <<top>> \o OrderByInternalDateDesc(rows \ {top})

\* Math.ceil(totalCount / limit)
CeilDiv(totalCount, limit) == (totalCount + limit - 1) \div limit

\* getAllEmails(): emailMessage.findMany without a where clause
GetAllEmails(M, T) ==
    OrderByInternalDateDesc({IncludeThread(r, T) : r \in M})

\* getUserEmailsPaginated(userId, page, limit): findMany({where: {userId},
\* skip, take}) and count({where: {userId}})
GetUserEmailsPaginated(M, T, userId, page, limit) ==
    LET skip == (page - 1) * limit
        own == OrderByInternalDateDesc({IncludeThread(r, T) : r \in {q \in M : q.userId = userId}})
        totalCount == Cardinality({q \in M : q.userId = userId})
    IN  [emails |-> SubSeq(own, skip + 1, Min(skip + limit, Len(own))),
         totalCount |-> totalCount, totalPages |-> CeilDiv(totalCount, limit)]

\* getEmailById(id): emailMessage.findUnique({where: {id}}), null as <<>>
GetEmailById(M, T, id) ==
    OrderByInternalDateDesc({IncludeThread(r, T) : r \in {q \in M : q.id = id}})

\* z.number().min(1) pages and limits, scaled
QueryPages == {1, 2}
QueryLimits == {1, 2}
\* the ids a client can ask for
QueryIds == {<<c, id>> : c \in Calls, id \in {"m1", "m2"}}

ReadIdle ==
    [pc |-> "idle", procedure |-> "none", user |-> "u1", page |-> 0, limit |-> 0,
     id |-> NoRow, rows |-> <<>>, totalCount |-> 0, totalPages |-> 0]

\* getAll: ctx.gmailService.getAllEmails()
EmailGetAll(u) ==
    /\ rd' = [ReadIdle EXCEPT !.pc = "answered", !.procedure = "getAll", !.user = u,
                              !.rows = GetAllEmails(messages, threads)]
    /\ UNCHANGED <<rt, pg, bgp, all, push, body, inbox, hdr, varsMain>>

\* getByUserPaginated: getUserEmailsPaginated(ctx.session.user.id, page, limit)
EmailGetByUserPaginated(u, page, limit) ==
    /\ LET a == GetUserEmailsPaginated(messages, threads, u, page, limit)
       IN  rd' = [ReadIdle EXCEPT !.pc = "answered", !.procedure = "getByUserPaginated",
                                 !.user = u, !.page = page, !.limit = limit,
                                 !.rows = a.emails, !.totalCount = a.totalCount,
                                 !.totalPages = a.totalPages]
    /\ UNCHANGED <<rt, pg, bgp, all, push, body, inbox, hdr, varsMain>>

\* getEmailById: ctx.gmailService.getEmailById(input.id)
EmailGetEmailById(u, id) ==
    /\ rd' = [ReadIdle EXCEPT !.pc = "answered", !.procedure = "getEmailById",
                              !.user = u, !.id = id,
                              !.rows = GetEmailById(messages, threads, id)]
    /\ UNCHANGED <<rt, pg, bgp, all, push, body, inbox, hdr, varsMain>>

(***************************************************************************)
(* The specifications.                                                     *)
(***************************************************************************)
\* the fetches that fail after their retries: none, or those of one id
FailingSets == {{}} \cup {{id} : id \in {"m1", "m2", "m3"}}

Init ==
    /\ rt = RtIdle
    /\ pg = PgIdle
    /\ bgp = BgpIdle
    /\ all = AllIdle
    /\ push = PushIdle
    /\ body = BodyIdle
    /\ inbox = InboxIdle
    /\ hdr = HeadersIdle
    /\ rd = ReadIdle
    /\ threads = {}
    /\ messages = {}
    /\ syncState = {}
    /\ call = [c \in Calls |-> CallIdle]
    /\ now = 0

Next ==
    \/ \E c \in Calls, u \in Users, s \in Strategies,
          mp \in {1, DefaultMaxPages}, cont \in BOOLEAN, h \in HistoryCursors :
            Start(c, u, s, mp, cont, h)
    \/ \E c \in Calls, listOk \in BOOLEAN, failing \in FailingSets :
          PageStep(c, listOk, failing)
    \/ \E c \in Calls, listOk \in BOOLEAN, failing \in FailingSets :
          HistoryStep(c, listOk, failing)
    \/ \E c \in Calls : FindThread(c)
    \/ \E c \in Calls, fault \in {"none", "thread", "upsert"} : PersistMessage(c, fault)
    \/ \E c \in Calls : Commit(c)
    \/ \E c \in Calls : TxFail(c)
    \/ \E c \in Calls, ok \in BOOLEAN : FinalizeSyncState(c, ok)

Spec == Init /\ [][Next]_vars

NextRetry ==
    \/ \E mr \in 0..MaxRetriesArg : RetryEnter(mr)
    \/ RetryFnReturns
    \/ \E e \in ErrorsOf(rt.calls + 1) : RetryFnRaises(e)
    \/ RetryWake

SpecRetry == Init /\ [][NextRetry]_vars

NextPages ==
    \/ \E mp \in 0..MaxPagesArg : PagesEnter(mp)
    \/ PagesListRaises
    \/ \E size \in PageSizes, hasNext \in BOOLEAN, fetchOk \in BOOLEAN :
          PagesIterate(size, hasNext, fetchOk)

SpecPages == Init /\ [][NextPages]_vars

NextBackground ==
    \/ \E size \in BackgroundPageSizes : BackgroundEnter(size)
    \/ \E dbOk \in BOOLEAN : BackgroundLeave(dbOk)
    \/ \E size \in BackgroundPageSizes, hasNext \in BOOLEAN,
          listOk \in BOOLEAN, persistOk \in BOOLEAN, dbOk \in BOOLEAN :
            BackgroundIterate(size, hasNext, listOk, persistOk, dbOk)

SpecBackground == Init /\ [][NextBackground]_vars

NextAll ==
    \/ \E n \in 0..MaxUsers : AllEnter(n)
    \/ \E o \in SyncOutcomes : AllSyncUser(o)
    \/ AllReturn

SpecAll == Init /\ [][NextAll]_vars

NextPush ==
    \/ \E envelope \in Envelopes, emailAddress \in PayloadAddresses,
          historyId \in PayloadCursors :
            PushReceive(envelope, emailAddress, historyId)
    \/ \E dbOk \in BOOLEAN : PushFindUser(dbOk)
    \/ \E dbOk \in BOOLEAN : PushReadCursor(dbOk)
    \/ \E outcome \in PushSyncOutcomes : PushSync(outcome)
    \/ PushNext
    \/ \E u \in {"u1", "u2"}, cursor \in {"h1", "h2"} : PushDirectHistorySync(u, cursor)

SpecPush == Init /\ [][NextPush]_vars

NextBody == \E payload \in Payloads : BodyExtract(payload)

SpecBody == Init /\ [][NextBody]_vars

NextHeaders == \E headers \in HeaderLists : HeadersParse(headers)

SpecHeaders == Init /\ [][NextHeaders]_vars

NextInbox ==
    \/ \E u \in Users : InboxEnter(u)
    \/ \E total \in InboxCounts : InboxLabelsReturns(total)
    \/ \E e \in InboxErrors : InboxLabelsRaises(e)
    \/ \E estimate \in InboxCounts : InboxFallbackReturns(estimate)
    \/ \E e \in InboxErrors : InboxFallbackRaises(e)

SpecInbox == Init /\ [][NextInbox]_vars

(***************************************************************************)
(* Termination.  SpecLive runs one of retryWithBackoff, the page loop of   *)
(* full sync, the page loop of the continuation or the sync calls, under   *)
(* the scheduling the runtime gives: an awaited upstream call resolves or  *)
(* rejects, a timer fires, and a transaction commits or is ended by its    *)
(* ceilings, so a function that can take a step eventually takes one.      *)
(***************************************************************************)
RetryAtRest == rt = RtIdle
PagesAtRest == pg = PgIdle
BackgroundAtRest == bgp = BgpIdle
CallsAtRest == \A c \in Calls : call[c].pc = "idle"

\* a step of retryWithBackoff after it was entered
RetryStep ==
    \/ RetryFnReturns
    \/ \E e \in ErrorsOf(rt.calls + 1) : RetryFnRaises(e)
    \/ RetryWake

\* an iteration of the page loop of full sync
PagesStep ==
    \/ PagesListRaises
    \/ \E size \in PageSizes, hasNext \in BOOLEAN, fetchOk \in BOOLEAN :
          PagesIterate(size, hasNext, fetchOk)

\* an iteration of the continuation, or its end
BackgroundStep ==
    \/ \E dbOk \in BOOLEAN : BackgroundLeave(dbOk)
    \/ \E size \in BackgroundPageSizes, hasNext \in BOOLEAN,
          listOk \in BOOLEAN, persistOk \in BOOLEAN, dbOk \in BOOLEAN :
            BackgroundIterate(size, hasNext, listOk, persistOk, dbOk)

\* a step of sync call c after it was entered
CallStep(c) ==
    \/ \E listOk \in BOOLEAN, failing \in FailingSets : PageStep(c, listOk, failing)
    \/ \E listOk \in BOOLEAN, failing \in FailingSets : HistoryStep(c, listOk, failing)
    \/ FindThread(c)
    \/ \E fault \in {"none", "thread", "upsert"} : PersistMessage(c, fault)
    \/ Commit(c)
    \/ TxFail(c)
    \/ \E ok \in BOOLEAN : FinalizeSyncState(c, ok)

\* the sync calls followed to their end: one call of any user and
\* strategy, or two concurrent calls on the mailbox of u2, whose
\* transactions wait for each other's locks
NextCalls ==
    /\ Next
    /\ call'["c2"].pc /= "idle" =>
          call'["c1"].user = "u2" /\ call'["c2"].user = "u2"

NextLive ==
    \/ PagesAtRest /\ BackgroundAtRest /\ CallsAtRest /\ NextRetry
    \/ RetryAtRest /\ BackgroundAtRest /\ CallsAtRest /\ NextPages
    \/ RetryAtRest /\ PagesAtRest /\ CallsAtRest /\ NextBackground
    \/ RetryAtRest /\ PagesAtRest /\ BackgroundAtRest /\ NextCalls

Fairness ==
    /\ WF_vars(RetryStep)
    /\ WF_vars(PagesStep)
    /\ WF_vars(BackgroundStep)
    /\ \A c \in Calls : WF_vars(CallStep(c))

SpecLive == Init /\ [][NextLive]_vars /\ Fairness

(***************************************************************************)
(* The callers of the service.  Outside the webhook the repository calls   *)
(* syncUserEmailsWithPagination (auth/config.ts:77, routers/email.ts:37)   *)
(* and syncAllUsersEmails, which runs syncUserEmails user after user       *)
(* (api/sync-emails/route.ts:31); the webhook calls the delta and the      *)
(* history sync.  SpecCallers runs the sync calls of every strategy but    *)
(* history together with the webhook, on one store.                        *)
(***************************************************************************)
\* a sync call entered from outside the webhook, for a user whose mailbox
\* the notifications can name
NextSyncs ==
    \/ \E u \in UNION {UsersByAddress(a) : a \in PayloadAddresses},
          s \in Strategies \ {"history"}, mp \in {1, DefaultMaxPages},
          cont \in BOOLEAN :
            Start("c1", u, s, mp, cont, "")
    \/ \E listOk \in BOOLEAN, failing \in FailingSets : PageStep("c1", listOk, failing)
    \/ FindThread("c1")
    \/ \E fault \in {"none", "thread", "upsert"} : PersistMessage("c1", fault)
    \/ Commit("c1")
    \/ TxFail("c1")
    \/ \E ok \in BOOLEAN : FinalizeSyncState("c1", ok)

\* the webhook handling one notification after another
NextWebhook ==
    \/ \E envelope \in Envelopes, emailAddress \in PayloadAddresses,
          historyId \in PayloadCursors :
            PushReceive(envelope, emailAddress, historyId)
    \/ \E dbOk \in BOOLEAN : PushFindUser(dbOk)
    \/ \E dbOk \in BOOLEAN : PushReadCursor(dbOk)
    \/ \E outcome \in PushSyncOutcomes : PushSync(outcome)
    \/ PushNext

NextCallers == NextSyncs \/ NextWebhook

SpecCallers == Init /\ [][NextCallers]_vars

(***************************************************************************)
(* A sync over a store an earlier sync has filled.  The rows of m1 were    *)
(* written when the upstream answered one of EarlierVersions; the sync     *)
(* calls of SpecResync then process the mailbox as it is now.              *)
(***************************************************************************)
\* the GmailMessage users.messages.get returned for m1 at the earlier sync
EarlierVersions ==
    {[GmailMessageOf("u1", "m1") EXCEPT !.from = v[1], !.subject = v[2],
                                        !.text = v[3], !.internalDate = v[4],
                                        !.snippet = "sn0"] :
        v \in {<<"z", "s1", "b1", 3>>, <<"a", "s0", "b0", 3>>, <<"z", "s0", "b0", 0>>}}

\* the store after the earlier full sync (call c2) of u1 has committed m1
InitResync ==
    /\ rt = RtIdle
    /\ pg = PgIdle
    /\ bgp = BgpIdle
    /\ all = AllIdle
    /\ push = PushIdle
    /\ body = BodyIdle
    /\ inbox = InboxIdle
    /\ hdr = HeadersIdle
    /\ rd = ReadIdle
    /\ \E m \in EarlierVersions :
         LET thread == NewThread("c2", "u1", m, "full")
         IN  /\ threads = {thread}
             /\ messages = {NewMessage("c2", "u1", m, thread.id)}
    /\ syncState = {}
    /\ call = [c \in Calls |-> CallIdle]
    /\ now = 0

\* one sync call of u1, in any strategy
NextResync ==
    \/ \E s \in Strategies, mp \in {1, DefaultMaxPages}, cont \in BOOLEAN,
          h \in HistoryCursors :
            Start("c1", "u1", s, mp, cont, h)
    \/ \E listOk \in BOOLEAN, failing \in FailingSets : PageStep("c1", listOk, failing)
    \/ \E listOk \in BOOLEAN, failing \in FailingSets : HistoryStep("c1", listOk, failing)
    \/ FindThread("c1")
    \/ \E fault \in {"none", "thread", "upsert"} : PersistMessage("c1", fault)
    \/ Commit("c1")
    \/ TxFail("c1")
    \/ \E ok \in BOOLEAN : FinalizeSyncState("c1", ok)

SpecResync == InitResync /\ [][NextResync]_vars

(***************************************************************************)
(* The queries of the email router over a store two users' syncs fill.     *)
(***************************************************************************)
\* the delta syncs of u1 and u2, without faults
NextWriters ==
    \/ \E c \in Calls, u \in {"u1", "u2"} : Start(c, u, "delta", 0, FALSE, "")
    \/ \E c \in Calls : PageStep(c, TRUE, {})
    \/ \E c \in Calls : FindThread(c)
    \/ \E c \in Calls : PersistMessage(c, "none")
    \/ \E c \in Calls : Commit(c)
    \/ \E c \in Calls : FinalizeSyncState(c, TRUE)

\* a query of a signed-in user
NextQueries ==
    \/ \E u \in {"u1", "u2"} : EmailGetAll(u)
    \/ \E u \in {"u1", "u2"}, page \in QueryPages, limit \in QueryLimits :
          EmailGetByUserPaginated(u, page, limit)
    \/ \E u \in {"u1", "u2"}, id \in QueryIds : EmailGetEmailById(u, id)

NextReads == NextWriters \/ NextQueries

SpecReads == Init /\ [][NextReads]_vars

(***************************************************************************)
(* Paginated sync from end to end: SpecPaginated runs, from Init, either   *)
(* one syncUserEmailsWithPagination call with its continuation over the    *)
(* mailboxes of Spec, or the page loop of the continuation over mailboxes  *)
(* long enough to reach MAX_PAGES.                                         *)
(***************************************************************************)
NextPaginatedCall ==
    \/ \E u \in Users, cont \in BOOLEAN :
          Start("c1", u, "paginated", DefaultMaxPages, cont, "")
    \/ \E listOk \in BOOLEAN, failing \in FailingSets : PageStep("c1", listOk, failing)
    \/ FindThread("c1")
    \/ \E fault \in {"none", "thread", "upsert"} : PersistMessage("c1", fault)
    \/ Commit("c1")
    \/ TxFail("c1")
    \/ \E ok \in BOOLEAN : FinalizeSyncState("c1", ok)

NextPaginated ==
    \/ BackgroundAtRest /\ NextPaginatedCall
    \/ CallsAtRest /\ NextBackground

SpecPaginated == Init /\ [][NextPaginated]_vars

(***************************************************************************)
(* The claims.                                                             *)
(***************************************************************************)
MessageRows(u, id) == {r \in messages : r.userId = u /\ r.gmailMessageId = id}
ThreadRows(u, tid) == {r \in threads : r.userId = u /\ r.gmailThreadId = tid}
UpstreamIds == {"m1", "m2", "m3"}
UpstreamThreadIds == {"t1", "t2"}

\* the positions of the queue of frame f whose chunk is committed and whose
\* upsert completed
CommittedOk(f) == {k \in 1..f.i : f.outcomes[k]}

\* C1: however often the sync calls process an upstream message M of user
\* U, the store holds at most one Message row (U, M.id), and exactly one
\* once a chunk in which the upsert of M completed is committed.
C1_OneMessageRowPerUpstreamId ==
    /\ \A u \in Users, id \in UpstreamIds : Cardinality(MessageRows(u, id)) <= 1
    /\ \A c \in Calls : \A k \in CommittedOk(call[c]) :
          Cardinality(MessageRows(call[c].user, call[c].queue[k])) = 1

\* C1 witness: two calls of the same user have both committed the upsert
\* of the same upstream message
C1_Witness ==
    /\ call["c1"].user = call["c2"].user
    /\ \E k1 \in CommittedOk(call["c1"]), k2 \in CommittedOk(call["c2"]) :
          /\ call["c1"].queue[k1] = call["c2"].queue[k2]
          /\ Cardinality(MessageRows(call["c1"].user, call["c1"].queue[k1])) = 1

\* C2: in every reachable state there is at most one Thread row per
\* (userId, gmailThreadId), also when a background continuation and a
\* second sync of the same user interleave their find-then-create steps.
C2_OneThreadRowPerUpstreamId ==
    \A u \in Users, tid \in UpstreamThreadIds : Cardinality(ThreadRows(u, tid)) <= 1

\* C2 witness: the continuation of a paginated sync and another sync of the
\* same user have both looked for the same thread, found none, and are about
\* to create it
C2_Witness ==
    \E c \in Calls, d \in Calls :
        /\ c /= d
        /\ call[c].bg /\ ~call[d].bg
        /\ call[c].user = call[d].user
        /\ call[c].pc = "write" /\ call[d].pc = "write"
        /\ call[c].found = NoRow /\ call[d].found = NoRow
        /\ Current(call[c]).threadId = Current(call[d]).threadId

\* the thread rows a transaction sees for the message it has just persisted
SeenThreadRows(f, m) ==
    {r \in View(threads, f.txT) : r.userId = f.user /\ r.gmailThreadId = m.threadId}

\* C3: in every strategy, right after a message with label set L is
\* persisted, its thread has isRead = (UNREAD not in L), isStarred =
\* (STARRED in L) and isImportant = (IMPORTANT in L); without a label set
\* the flags are true, false, false.
C3_ThreadFlagsFollowLabels ==
    \A c \in Calls :
        LET f == call[c] IN
        (f.pc \in {"find", "commit"} /\ f.j > f.i /\ f.outcomes[f.j]) =>
            LET m == GmailMessageOf(f.user, f.queue[f.j]) IN
            /\ SeenThreadRows(f, m) /= {}
            /\ \A r \in SeenThreadRows(f, m) :
                  /\ r.isRead = ~("UNREAD" \in m.labelIds.ids)
                  /\ r.isStarred = ("STARRED" \in m.labelIds.ids)
                  /\ r.isImportant = ("IMPORTANT" \in m.labelIds.ids)

\* C4: an operation that fails on every invocation with 429 or a status
\* >= 500 and no retry-after hint is invoked exactly maxRetries + 1 times,
\* never more, and the error of the last invocation is the one propagated.
C4_AttemptBudget ==
    /\ rt.calls <= rt.maxRetries + 1
    /\ (rt.pc = "thrown" /\ rt.allRetryable /\ ~rt.anyHint) =>
          /\ rt.calls = rt.maxRetries + 1
          /\ rt.thrown = rt.err
          /\ rt.thrown.n = rt.calls

C4_Witness ==
    /\ rt.pc = "thrown" /\ rt.allRetryable /\ ~rt.anyHint
    /\ rt.maxRetries = 3 /\ rt.calls = 4 /\ rt.thrown.status = 429

\* C5: an error whose status is neither 429 nor >= 500, or that carries no
\* status, is propagated by the invocation that raised it: no sleep and no
\* further invocation follows, whatever budget remains; raised by the first
\* invocation it is propagated after exactly one invocation.
C5_NoRetryOfOtherErrors ==
    (/\ rt.calls > 0
     /\ rt.pc /= "returned"
     /\ rt.err.n = rt.calls
     /\ ~(rt.err.hasStatus /\ (rt.err.status = 429 \/ rt.err.status >= 500))) =>
        /\ rt.pc = "thrown"
        /\ rt.thrown = rt.err
        /\ rt.sleeps = rt.calls - 1
        /\ rt.attempt = rt.calls - 1

C5_Witness ==
    /\ rt.pc = "thrown" /\ ~rt.err.hasStatus /\ rt.thrown = rt.err
    /\ rt.calls = 1 /\ rt.sleeps = 0 /\ rt.attempt < rt.maxRetries

\* C6: when the fetch of one message id still fails after its retries, the
\* sync call does not abort: no call ends raised because of a failed fetch.
C6_FetchFailureDoesNotAbort ==
    \A c \in Calls : ~(call[c].result = "raised" /\ call[c].error = "fetch")

Count(seq, v) == Cardinality({k \in 1..Len(seq) : seq[k] = v})

C8_ChunkFailureIsAtomicAndFatal ==
    [][\A c \in Calls :
          /\ (call[c].result /= "raised" /\ call'[c].result = "raised"
                /\ call'[c].error = "tx") =>
                /\ threads' = threads
                /\ messages' = messages
                /\ syncState' = syncState
                /\ call'[c].pc = "raised"
          /\ call[c].pc = "raised" => call'[c] = call[c]]_vars

\* C8 witness: the transaction of the second chunk of a full sync has
\* failed; the message of the first chunk is in the store, the message of
\* the second chunk is not
C8_Witness ==
    \E c \in Calls :
        /\ call[c].strategy = "full" /\ call[c].result = "raised"
        /\ call[c].error = "tx" /\ call[c].i = BATCH_SIZE
        /\ Len(call[c].queue) > BATCH_SIZE
        /\ 1 \in CommittedOk(call[c])
        /\ MessageRows(call[c].user, call[c].queue[1]) /= {}
        /\ MessageRows(call[c].user, call[c].queue[Len(call[c].queue)]) = {}

FullSyncRows(u) == {r \in syncState : r.userId = u /\ r.lastFullSync > 0}

\* C9 as claimed: every full sync call that has reached a terminal state
\* (returned, or raised by a fatal chunk-transaction error) has upserted
\* lastFullSync of the user's Sync State row.
C9_AlwaysFinalized ==
    \A c \in Calls :
        (/\ call[c].strategy = "full"
         /\ \/ call[c].result = "returned"
            \/ call[c].result = "raised" /\ call[c].error = "tx") =>
            call[c].finalized /\ FullSyncRows(call[c].user) /= {}

\* C9 as amended: a full sync call that returns (pages exhausted or ceiling
\* reached) has upserted lastFullSync of the user's Sync State row; a full
\* sync call that raises has not written the Sync State.
C9_FinalizedWhenReturned ==
    \A c \in Calls :
        call[c].strategy = "full" =>
            /\ call[c].result = "returned" =>
                  call[c].finalized /\ FullSyncRows(call[c].user) /= {}
            /\ call[c].result = "raised" => ~call[c].finalized

\* C9 witness: one full sync has returned and stamped lastFullSync, another
\* has raised on a chunk transaction and no row of its user is stamped
C9_Witness ==
    \E c \in Calls, d \in Calls :
        /\ call[c].strategy = "full" /\ call[c].result = "returned"
        /\ FullSyncRows(call[c].user) /= {}
        /\ call[d].strategy = "full" /\ call[d].result = "raised"
        /\ call[d].error = "tx" /\ FullSyncRows(call[d].user) = {}

\* C10: the page loop of full sync lists pages until the first of an empty
\* page, a response without token, or pageCount reaching maxPages; for
\* maxPages >= 1 it issues at most maxPages list calls; pages of sizes
\* [100,100,37,0] under ceiling 5 give 3 non-empty pages and a stop on the
\* empty page.
C10_PageLoopStops ==
    LET n == Len(pg.sizes) IN
    /\ pg.maxPages >= 1 => pg.listCalls <= pg.maxPages
    /\ pg.listCalls = pg.pageCount
    /\ \A k \in 1..(n - 1) : pg.sizes[k] > 0 /\ pg.tokens[k] /\ k < pg.maxPages
    /\ (pg.pc = "loop" /\ n > 0) =>
          pg.sizes[n] > 0 /\ pg.tokens[n] /\ n < pg.maxPages
    /\ pg.pc = "fetched" =>
          /\ pg.stop = "empty" <=> pg.sizes[n] = 0
          /\ pg.stop = "notoken" <=> (pg.sizes[n] > 0 /\ ~pg.tokens[n])
          /\ pg.stop = "ceiling" <=>
                (pg.sizes[n] > 0 /\ pg.tokens[n] /\ pg.pageCount >= pg.maxPages)
    /\ (pg.maxPages = 5 /\ pg.sizes = <<100, 100, 37, 0>>) =>
          /\ pg.pc = "fetched" /\ pg.stop = "empty"
          /\ pg.nonEmpty = 3 /\ pg.listCalls = 4 /\ pg.fetched = 237

C10_Witness ==
    /\ pg.maxPages = 5 /\ pg.sizes = <<100, 100, 37, 0>>
    /\ pg.stop = "empty" /\ pg.nonEmpty = 3 /\ pg.pageCount < pg.maxPages

C12_AtMostTwentyPages ==
    /\ bgp.listCalls <= MAX_PAGES
    /\ bgp.listCalls = bgp.pageCount
    /\ bgp.stop = "ceiling" => bgp.hasToken /\ bgp.listCalls = MAX_PAGES

\* C12 witness: every page came with a token and the continuation stopped
\* on the ceiling, 20 pages listed and 19 of them persisted by it
C12_Witness ==
    /\ bgp.pc = "done" /\ bgp.stop = "ceiling" /\ bgp.hasToken
    /\ bgp.listCalls = 20 /\ bgp.persisted = 19 * 50

\* C13: an error raised inside the continuation (an upstream call out of
\* retries, a chunk transaction, the sync state) is swallowed: no step of a
\* continuation changes the result its caller received, none ends in a
\* raised error, and a continuation that met an error is simply over.
C13_ContinuationErrorsSwallowed ==
    [][\A c \in Calls :
          LET f == call[c]
              g == call'[c]
          IN  /\ f.bg =>
                    /\ g.result = "returned" /\ g.error = "none"
                    /\ g.resSynced = f.resSynced /\ g.resErrors = f.resErrors
                    /\ g.backgroundTaskStarted = f.backgroundTaskStarted
                    /\ g.pc /= "raised"
              /\ g.bgError /= "none" =>
                    /\ g.bg /\ g.pc = "done"
                    /\ f.bgError = "none" =>
                          /\ threads' = threads /\ messages' = messages
                          /\ syncState' = syncState]_vars

\* C13 witness: one continuation has ended on a failed chunk transaction
\* and another on a failed sync state write; both callers hold the result
\* of their first page
C13_Witness ==
    \E c \in Calls, d \in Calls :
        /\ call[c].bg /\ call[c].bgError = "tx"
        /\ call[c].result = "returned" /\ call[c].resSynced = PageSize
        /\ call[d].bg /\ call[d].bgError = "state"
        /\ call[d].result = "returned" /\ call[d].resSynced = PageSize

\* the Sync State rows of user u for the mailbox address the code resolves
SyncStateRows(rows, u) ==
    {r \in rows : r.userId = u /\ r.provider = "google"
                  /\ r.email = (IF AccountEmail(u) = "" THEN "unknown@gmail.com"
                                ELSE AccountEmail(u))}

CursorValue(h) == CASE h = "h1" -> 1 [] h = "h2" -> 2 [] h = "h3" -> 3 [] OTHER -> 0

\* C15: whatever the sync operations and the starting cursors of the
\* history syncs, no step makes the history cursor of a Sync State row
\* smaller than it was.
C15_CursorOnlyMovesForward ==
    [][\A r \in syncState : \A q \in syncState' :
          (q.userId = r.userId /\ q.provider = r.provider /\ q.email = r.email) =>
              CursorValue(q.historyId) >= CursorValue(r.historyId)]_vars

\* C16: the step in which a history sync whose cursor yields no history
\* record returns gives synced = 0 and errors = 0 and leaves the store as
\* it was: no Sync State row is created, historyId and lastDeltaSync of the
\* rows keep their values, the clock is not read.
C16_EmptyHistoryTouchesNothing ==
    [][\A c \in Calls :
          LET f == call[c]
              g == call'[c]
          IN  (/\ f.strategy = "history" /\ f.result = "none"
               /\ g.result = "returned" /\ Len(g.queue) = 0) =>
                  /\ g.resSynced = 0 /\ g.resErrors = 0
                  /\ ~g.finalized
                  /\ syncState' = syncState /\ now' = now
                  /\ threads' = threads /\ messages' = messages]_vars

\* C16 witness: a history sync from h3, which yields nothing, has returned
\* zero counts after one from h1 had written the row: the row still holds
\* h1 and the time that sync wrote
C16_Witness ==
    \E c \in Calls, d \in Calls :
        /\ call[c].user = call[d].user
        /\ call[d].strategy = "history" /\ call[d].startHistoryId = "h1"
        /\ call[d].finalized
        /\ call[c].strategy = "history" /\ call[c].startHistoryId = "h3"
        /\ call[c].result = "returned" /\ ~call[c].finalized
        /\ call[c].resSynced = 0 /\ call[c].resErrors = 0
        /\ \E r \in SyncStateRows(syncState, call[c].user) :
              r.historyId = "h1" /\ r.lastDeltaSync = 1

\* C17: delta sync issues one list call, without page token, and holds no
\* token afterwards; the step in which it returns on an empty page gives
\* zero counts and writes nothing; otherwise the step in which it returns
\* comes after that single page was fetched and persisted in one pass and
\* writes lastDeltaSync.
C17_DeltaIsOnePage ==
    [][\A c \in Calls :
          LET f == call[c]
              g == call'[c]
          IN  /\ g.strategy = "delta" =>
                    /\ g.listCalls <= 1
                    /\ g.nextPageToken = NoToken
                    /\ g.pageCount = 0
              /\ (f.strategy = "delta" /\ f.result = "none"
                    /\ g.result = "returned") =>
                    /\ g.listCalls = 1
                    /\ g.queue = ListIds(f.user, PageSize, NoToken)
                    /\ IF Len(g.queue) = 0
                       THEN /\ g.resSynced = 0 /\ g.resErrors = 0
                            /\ ~g.finalized
                            /\ syncState' = syncState /\ threads' = threads
                            /\ messages' = messages
                       ELSE /\ f.pc = "state" /\ f.i = Len(f.queue)
                            /\ g.resSynced + g.resErrors = Len(g.queue)
                            /\ \A k \in 1..Len(f.queue) : f.outcomes[k] =>
                                  \E r \in messages : /\ r.userId = f.user
                                                       /\ r.gmailMessageId = f.queue[k]
                            /\ \E r \in SyncStateRows(syncState', f.user) :
                                  r.lastDeltaSync = now' /\ now' > now]_vars

\* C17 witness: a delta sync of a mailbox of more than one page has
\* returned with the first page persisted and lastDeltaSync written, the
\* message of the second page not in the store; another, of an empty
\* mailbox, has returned zero counts
C17_Witness ==
    \E c \in Calls, d \in Calls :
        /\ call[c].strategy = "delta" /\ call[c].result = "returned"
        /\ call[c].user = "u1" /\ call[c].listCalls = 1
        /\ call[c].resSynced = PageSize /\ call[c].finalized
        /\ MessageRows("u1", "m1") /= {}
        /\ MessageRows("u1", Mailbox("u1")[Len(Mailbox("u1"))]) = {}
        /\ \E r \in SyncStateRows(syncState, "u1") : r.lastDeltaSync > 0
        /\ call[d].strategy = "delta" /\ call[d].result = "returned"
        /\ call[d].user = "u4" /\ call[d].listCalls = 1
        /\ call[d].resSynced = 0 /\ ~call[d].finalized

RECURSIVE SumOver(_, _, _)
\* the sum of field(results[k].outcome) over the first n results
SumOver(results, n, field) ==
    IF n = 0 THEN 0
    ELSE SumOver(results, n - 1, field)
         + (CASE field = "synced" -> results[n].outcome.synced
              [] field = "errors" -> results[n].outcome.errors
              [] OTHER -> IF results[n].outcome.raised THEN 1 ELSE 0)

\* C18: syncAllUsersEmails syncs the enumerated users one after another,
\* each once; a user whose sync raises adds exactly 1 to totalErrors and
\* the users after it are still synced; on return totalUsers is the number
\* of users, totalSynced the sum of synced over the syncs that returned,
\* totalErrors the sum of their errors plus the number of syncs that
\* raised; with no user all totals are 0.
C18_AllUsersTotals ==
    LET n == Len(all.results) IN
    /\ n = all.k /\ n <= Len(all.users)
    /\ \A k \in 1..n : all.results[k].user = all.users[k]
    /\ all.totalSynced = SumOver(all.results, n, "synced")
    /\ all.totalErrors = SumOver(all.results, n, "errors")
                            + SumOver(all.results, n, "raised")
    /\ all.pc = "returned" =>
          /\ n = Len(all.users)
          /\ all.totalUsers = Len(all.users)
          /\ Len(all.users) = 0 =>
                all.totalSynced = 0 /\ all.totalErrors = 0 /\ all.totalPages = 0

\* C18 witness: of three users the sync of the second raised; the third
\* was still synced and the totals count the error
C18_Witness ==
    /\ all.pc = "returned" /\ all.totalUsers = 3
    /\ ~all.results[1].outcome.raised /\ all.results[1].outcome.synced = 3
    /\ all.results[2].outcome.raised
    /\ ~all.results[3].outcome.raised /\ all.results[3].outcome.synced = 1
    /\ all.results[3].outcome.errors = 1
    /\ all.totalSynced = 4 /\ all.totalErrors = 2 + all.results[1].outcome.errors

\* C19: a sync call (full, delta, history, paginated) of the user without
\* stored access token has raised the credentials error to its caller: it
\* issued no upstream call, runs no continuation, and no Thread, Message
\* or Sync State row of that user exists.
C19_NoTokenIsFatal ==
    /\ \A c \in Calls :
          (call[c].pc /= "idle" /\ call[c].user = "u3") =>
              /\ call[c].pc = "raised" /\ call[c].result = "raised"
              /\ call[c].error = "credentials"
              /\ call[c].listCalls = 0 /\ call[c].pageCount = 0
              /\ call[c].queue = <<>>
              /\ ~call[c].finalized /\ ~call[c].bg
    /\ \A r \in threads \cup messages \cup syncState : r.userId /= "u3"

\* C19 witness: a full and a paginated sync of that user have both raised,
\* and the store is empty
C19_Witness ==
    /\ call["c1"].user = "u3" /\ call["c1"].strategy = "full"
    /\ call["c1"].result = "raised" /\ call["c1"].error = "credentials"
    /\ call["c2"].user = "u3" /\ call["c2"].strategy = "paginated"
    /\ call["c2"].result = "raised" /\ call["c2"].error = "credentials"
    /\ threads = {} /\ messages = {} /\ syncState = {}

\* C20: a synchronous sync call raises only for missing credentials or for
\* a transaction-ceiling error; after any other failure it returns its
\* structured result.
C20_RaisesOnlyForConfigOrCeiling ==
    \A c \in Calls :
        call[c].result = "raised" => call[c].error \in {"credentials", "tx"}

\* the history cursors on record for user u
CursorsOnRecord(u) == {r.historyId : r \in StateRowsOf(u)} \ {""}

\* C21: a well-formed notification that resolves to a user, whose Sync
\* State row is read, invokes exactly one sync: the history sync when a
\* history cursor is on record for the user, the delta sync with 50
\* messages when none is; no notification invokes a second sync.
C21_PushInvokesOneSync ==
    [][/\ push'.syncs <= 1
       /\ (push.pc = "cursor" /\ push'.pc = "sync") =>
             /\ push'.syncs = 0
             /\ push'.method = IF CursorsOnRecord(push.userId) /= {}
                               THEN "history" ELSE "delta"
       /\ (push.pc = "sync" /\ push'.pc = "responded") =>
             /\ push.syncs = 0 /\ push'.syncs = 1
             /\ push'.method = push.method
             /\ push.method \in {"delta", "history"}
             /\ push.method = "delta" =>
                   push'.maxMessages = 50 /\ push'.calledWith = ""
             /\ push.method = "history" => push'.calledWith /= ""
       /\ (push'.pc = "responded" /\ push'.failure \in {"none", "sync"}) =>
             push'.syncs = 1]_vars

\* C21 witness: the second notification for a user with cursor h1 on
\* record was answered after exactly one sync, the history sync
C21_Witness ==
    /\ push.pc = "responded" /\ push.userId = "u1" /\ push.success
    /\ push.method = "history" /\ push.syncs = 1 /\ push.handled = 2
    /\ \E r \in StateRowsOf("u1") : r.historyId = "h1" /\ r.lastDeltaSync = 3

\* C22: every notification the webhook fails to handle (malformed
\* envelope, payload without address or cursor, unknown mailbox, failed
\* sync) is answered with a status below 400.
C22_FailuresAcknowledged ==
    (push.pc = "responded" /\ push.failure /= "none") => push.status < 400

RECURSIVE FirstFound(_, _)
\* the decoded data of the first part of the given type with body data that
\* a depth-first walk of the parts meets ("" : none)
FirstFound(parts, mimeType) ==
    IF Len(parts) = 0 THEN ""
    ELSE LET part == Head(parts)
         IN  IF part.mimeType = mimeType /\ part.data /= ""
             THEN Base64Decode(part.data)
             ELSE LET below == FirstFound(part.parts, mimeType)
                  IN  IF below /= "" THEN below
                      ELSE FirstFound(Tail(parts), mimeType)

\* C24: for every part tree, the html result of extractEmailBody is the
\* decoded data of the first text/html part with body data in depth-first
\* order and the text result that of the first text/plain part: no later
\* sibling and no nested part overwrites a result already found.
C24_FirstFoundWins ==
    (body.pc = "returned" /\ body.payload.hasParts) =>
        /\ body.html = FirstFound(body.payload.parts, "text/html")
        /\ body.text = FirstFound(body.payload.parts, "text/plain")

\* the step of call c commits its transaction
Commits(c) ==
    /\ call[c].pc = "commit" /\ call'[c] /= call[c]
    /\ call'[c].error = "none" /\ call'[c].bgError = "none"

\* C23: the step that commits a batch leaves, for every thread the batch
\* wrote, isRead equal to the negation of "carries UNREAD" of the last
\* message of that thread in the batch, in the order of the loop, whatever
\* the dates of the messages; a message of the thread after it can only be
\* one whose processing raised.
C23_LastProcessedWins ==
    [][\A c \in Calls :
          LET f == call[c]
              Msg(k) == GmailMessageOf(f.user, f.queue[k])
          IN  Commits(c) =>
                \A w \in f.txT :
                    LET of == {k \in (f.i + 1)..f.j :
                                  Msg(k).threadId = w.gmailThreadId}
                    IN  /\ \E r \in threads' : r.id = w.id
                        /\ \E l \in of :
                              /\ \A n \in of : n > l => ~f.outcomes[n]
                              /\ \A r \in threads' :
                                    r.id = w.id =>
                                        r.isRead = ~HasLabel(Msg(l), "UNREAD")]_vars

\* C23 witness: a full sync committed the batch m1 (date 3, unread) then
\* m2 (date 1, read) of one thread without an error, and the thread is read
C23_Witness ==
    /\ call["c1"].strategy = "full" /\ call["c1"].user = "u1"
    /\ call["c1"].i = 2 /\ call["c1"].pc = "find"
    /\ SubSeq(call["c1"].queue, 1, 2) = <<"m1", "m2">>
    /\ call["c1"].outcomes = <<TRUE, TRUE>>
    /\ call["c2"].pc = "idle"
    /\ \E r \in threads : /\ r.gmailThreadId = "t1" /\ r.isRead
                          /\ r.lastMessageAt = 1

\* C27: when a full sync raised because listing or fetching a page failed,
\* the messages of the pages fetched before it are in the store: each page
\* is persisted before the ids of the next are requested.
C27_PagePersistedBeforeNextFetch ==
    \A c \in Calls :
        (/\ call[c].strategy = "full" /\ call[c].result = "raised"
         /\ call[c].error \in {"list", "fetch"}) =>
            \A k \in 1..Len(call[c].queue) :
                \E r \in messages : /\ r.userId = call[c].user
                                    /\ r.gmailMessageId = call[c].queue[k]

\* C28: in every strategy a persistence transaction processes at most
\* BATCH_SIZE messages and carries the wait and execution ceilings.
C28_EveryTransactionIsAChunk ==
    \A c \in Calls :
        call[c].pc \in {"find", "write", "commit"} =>
            /\ ChunkEnd(call[c], call[c].i) - call[c].i <= BATCH_SIZE
            /\ CarriesCeilings(call[c])

\* C29: whenever no transaction is in flight, each Thread row in the store
\* has at least one Message row referencing it.
C29_NoThreadWithoutMessage ==
    (\A c \in Calls : call[c].pc \notin {"find", "write", "commit"}) =>
        \A t \in threads : \E m \in messages : m.threadId = t.id

\* C30: the ids a history sync collected from the history records hold no
\* id twice.
C30_CollectedIdsAreDistinct ==
    \A c \in Calls :
        call[c].strategy = "history" =>
            \A k, l \in 1..Len(call[c].queue) :
                call[c].queue[k] = call[c].queue[l] => k = l

\* C25: retryWithBackoff, once entered, returns or throws, whatever the
\* operation answers (429 on every call included); the page loop of full
\* sync and the continuation, once entered, end, whatever the pages
\* (a next-page token with every page included); every sync call, once
\* entered, returns or raises to its caller, and it and its continuation
\* come to an end.
C25_EveryCallTerminates ==
    /\ (rt.pc /= "idle") ~> (rt.pc \in {"returned", "thrown"})
    /\ (pg.pc /= "idle") ~> (pg.pc \in {"fetched", "raised"})
    /\ (bgp.pc /= "idle") ~> (bgp.pc = "done")
    /\ \A c \in Calls :
          /\ (call[c].pc /= "idle") ~> (call[c].result \in {"returned", "raised"})
          /\ (call[c].pc /= "idle") ~> (call[c].pc \in {"done", "raised"})

\* C25 witness: the continuation was handed a next-page token with every
\* page and ended at its page ceiling
C25_Witness ==
    /\ bgp.pc = "done" /\ bgp.stop = "ceiling" /\ bgp.hasToken
    /\ bgp.pageCount = MAX_PAGES /\ bgp.listCalls = MAX_PAGES

\* C31: no step moves lastMessageAt of a thread backward: neither the
\* processing of a message inside a transaction, against the value the
\* transaction read, nor a commit, against the value stored before it.
C31_LastMessageAtMovesForward ==
    [][/\ \A r \in threads : \A q \in threads' :
             q.id = r.id => q.lastMessageAt >= r.lastMessageAt
       /\ \A c \in Calls :
             \A r \in View(threads, call[c].txT) : \A q \in call'[c].txT :
                 q.id = r.id => q.lastMessageAt >= r.lastMessageAt]_vars

C33_NoCursorIsEverStored ==
    /\ \A r \in syncState : r.historyId = ""
    /\ push.method \in {"none", "delta"}
    /\ push.calledWith = "" /\ push.lastHistoryId = ""
    /\ push.pc = "responded" /\ push.syncs = 1 => push.maxMessages = 50

\* C33 witness: after a paginated sync whose continuation wrote
\* lastFullSync for u1, the second notification for u1 was served, as the
\* first, by a delta sync that wrote lastDeltaSync, and the row of u1 has
\* no cursor
C33_Witness ==
    /\ call["c1"].user = "u1" /\ call["c1"].strategy = "paginated"
    /\ call["c1"].bg /\ call["c1"].finalized
    /\ push.pc = "responded" /\ push.handled = 2 /\ push.userId = "u1"
    /\ push.success /\ push.method = "delta" /\ push.syncs = 1
    /\ \E r \in syncState : /\ r.userId = "u1" /\ r.historyId = ""
                            /\ r.lastFullSync > 0 /\ r.lastDeltaSync = 3

\* C34: every upstream call getInboxTotalCount issues is issued from
\* inside retryWithBackoff: a call answered with 429 or a 5xx is followed
\* by another call of the same method while the budget lasts.
C34_EveryUpstreamCallIsWrapped ==
    /\ \A k \in 1..Len(inbox.calls) : inbox.calls[k].wrapped
    /\ inbox.pc = "returned" =>
          \A k \in 1..Len(inbox.calls) :
              LET a == inbox.calls[k].err
                  before == {l \in 1..(k - 1) : inbox.calls[l].api = inbox.calls[k].api}
              IN  (/\ ~inbox.calls[k].ok /\ a.hasStatus /\ (a.status = 429 \/ a.status >= 500)
                   /\ Cardinality(before) < DefaultMaxRetries) =>
                      /\ k < Len(inbox.calls)
                      /\ inbox.calls[k + 1].api = inbox.calls[k].api

\* the header names that are the given field name in some case
NamesOf(field) ==
    CASE field = "from" -> {"From", "FROM", "from"}
      [] field = "to" -> {"To"}
      [] field = "cc" -> {"Cc"}
      [] field = "bcc" -> {"BCC"}
      [] field = "subject" -> {"Subject"}
      [] OTHER -> {"Date"}

\* the value parseEmailHeaders is to give a field: that of the last header
\* with its name in any case, "" without one
LastValue(headers, field) ==
    LET at == {k \in 1..Len(headers) : headers[k].name \in NamesOf(field)}
    IN  IF at = {} THEN ""
        ELSE headers[CHOOSE k \in at : \A l \in at : l <= k].value

\* C39: for every header list, each of from, to, cc, bcc, subject, date of
\* the result of parseEmailHeaders is the value of the last header whose
\* name is the field name in any case, and "" when there is none.
C39_HeadersLastOccurrenceWins ==
    hdr.pc = "returned" =>
        /\ hdr.parsed.from = LastValue(hdr.headers, "from")
        /\ hdr.parsed.to = LastValue(hdr.headers, "to")
        /\ hdr.parsed.cc = LastValue(hdr.headers, "cc")
        /\ hdr.parsed.bcc = LastValue(hdr.headers, "bcc")
        /\ hdr.parsed.subject = LastValue(hdr.headers, "subject")
        /\ hdr.parsed.date = LastValue(hdr.headers, "date")

\* C39 witness: From: a, then from: b in another case, then a header that
\* is none of the six: from is b, the other fields are empty
C39_Witness ==
    /\ hdr.pc = "returned" /\ Len(hdr.headers) = 3
    /\ hdr.headers[1] = [name |-> "From", value |-> "a"]
    /\ hdr.headers[2] = [name |-> "FROM", value |-> "b"]
    /\ hdr.headers[3].name = "X-Mailer"
    /\ hdr.parsed.from = "b" /\ hdr.parsed.subject = "" /\ hdr.parsed.date = ""

\* C38: the step in which retryWithBackoff goes to sleep follows a failure
\* with status 429 or 5xx of the attempt with index a < maxRetries, and
\* the delay is s * 1000 ms when the error carries a retry-after hint of s
\* seconds and baseDelay * 2^a ms when it carries none: 1000, 2000, 4000,
\* ... before the attempts 1, 2, 3, ...
C38_BackoffDelay ==
    [][(rt.pc = "call" /\ rt'.pc = "sleep") =>
          LET a == rt.attempt
              e == rt'.err
          IN  /\ a < rt.maxRetries /\ rt'.attempt = a
              /\ e.hasStatus /\ (e.status = 429 \/ e.status >= 500)
              /\ e.retryAfter = "0" => rt'.lastDelay = 0
              /\ e.retryAfter = "2" => rt'.lastDelay = 2000
              /\ e.retryAfter = "absent" =>
                    /\ rt'.lastDelay = rt.baseDelay * Pow2(a)
                    /\ a = 0 => rt'.lastDelay = 1000
                    /\ a = 1 => rt'.lastDelay = 2000
                    /\ a = 2 => rt'.lastDelay = 4000]_vars

\* C38 witness: the third failure, without hint, put the call to sleep for
\* 4000 ms after an earlier failure had carried a hint
C38_Witness ==
    /\ rt.pc = "sleep" /\ rt.attempt = 2 /\ rt.maxRetries = 3 /\ rt.sleeps = 3
    /\ rt.err.status = 429 /\ rt.err.retryAfter = "absent"
    /\ rt.lastDelay = 4000 /\ rt.anyHint

\* the rows a transaction or a reader can see: committed or written in flight
SeenMessages == messages \cup UNION {call[c].txM : c \in Calls}
SeenThreads == threads \cup UNION {call[c].txT : c \in Calls}

\* C36: re-processing a message whose row exists changes nothing of the
\* row but its snippet (from, subject, text body, send timestamp and thread
\* reference stay as the first sync wrote them), and a step changes nothing
\* of an existing thread row but its flags, lastMessageAt and snippet: the
\* subject of an existing thread is never overwritten
C36_ReprocessingRefreshesOnly ==
    [][/\ \A r \in SeenMessages :
            \A q \in messages' \cup UNION {call'[c].txM : c \in Calls} :
              r.id = q.id =>
                /\ q.from = r.from /\ q.subject = r.subject
                /\ q.textPlain = r.textPlain /\ q.internalDate = r.internalDate
                /\ q.threadId = r.threadId /\ q.userId = r.userId
                /\ q.gmailMessageId = r.gmailMessageId
       /\ \A r \in SeenThreads :
            \A q \in threads' \cup UNION {call'[c].txT : c \in Calls} :
              r.id = q.id =>
                /\ q.subject = r.subject /\ q.userId = r.userId
                /\ q.gmailThreadId = r.gmailThreadId]_vars

\* the row of m1 an earlier sync wrote with other headers has been
\* re-processed and committed: its snippet is the upstream's, its from or
\* subject are not
C36_Witness ==
    \E r \in messages, t \in threads :
        /\ r.gmailMessageId = "m1" /\ r.snippet = GmailMessageOf("u1", "m1").snippet
        /\ r.from /= GmailMessageOf("u1", "m1").from
        /\ r.subject /= GmailMessageOf("u1", "m1").subject
        /\ t.id = r.threadId /\ t.subject = r.subject
        /\ t.snippet /= "sn0"

\* the rows of the three tables a user owns
RowsOwnedBy(u, T, M, S) ==
    <<{r \in T : r.userId = u}, {r \in M : r.userId = u}, {r \in S : r.userId = u}>>

\* C37: a step changes rows of a user only if it is a step of a sync call
\* for that user, a transaction holds written rows of its own user only,
\* and every Message row references a Thread row of the same user
C37_SyncsStayInOwnRows ==
    /\ [](/\ \A c \in Calls : \A r \in call[c].txT \cup call[c].txM :
                 r.userId = call[c].user
          /\ \A r \in messages :
                 \E t \in threads : t.id = r.threadId /\ t.userId = r.userId
          /\ \A c \in Calls : \A r \in call[c].txM :
                 \E t \in View(threads, call[c].txT) :
                     t.id = r.threadId /\ t.userId = r.userId)
    /\ [][\A u \in Users :
            RowsOwnedBy(u, threads, messages, syncState)
              /= RowsOwnedBy(u, threads', messages', syncState')
            => \E c \in Calls : call'[c] /= call[c] /\ call[c].user = u]_vars

\* two users hold rows of the same upstream message and thread ids, and a
\* Sync State row each
C37_Witness ==
    /\ \E r \in messages, q \in messages :
          /\ r.userId = "u1" /\ q.userId = "u2"
          /\ r.gmailMessageId = q.gmailMessageId
    /\ \E r \in threads, q \in threads :
          /\ r.userId = "u1" /\ q.userId = "u2"
          /\ r.gmailThreadId = q.gmailThreadId
    /\ \E r \in syncState, q \in syncState : r.userId = "u1" /\ q.userId = "u2"

\* C40: a continuation that ends without an error (the tokens are
\* exhausted, a page is empty or MAX_PAGES is reached) has upserted
\* lastFullSync on the Sync State row of the resolved address, and a
\* paginated sync that launches no continuation writes no Sync State row
C40_ContinuationFinalizes ==
    /\ [](/\ bgp.pc = "done" /\ ~bgp.caught =>
                bgp.finalized /\ bgp.stop \in {"notoken", "empty", "ceiling"}
          /\ bgp.finalized => ~bgp.caught
          /\ \A c \in Calls :
                call[c].strategy = "paginated" /\ call[c].pc \in {"done", "raised"}
                /\ ~call[c].backgroundTaskStarted => syncState = {})
    /\ [][\A c \in Calls :
            call[c].strategy = "paginated" /\ call'[c] /= call[c] =>
              /\ call[c].bg /\ call'[c].pc = "done" /\ call'[c].bgError = "none" =>
                    /\ call'[c].finalized
                    /\ \E r \in syncState' :
                          /\ r.userId = call[c].user /\ r.provider = "google"
                          /\ r.email = (IF AccountEmail(call[c].user) = ""
                                         THEN "unknown@gmail.com"
                                         ELSE AccountEmail(call[c].user))
                          /\ r.lastFullSync = now' /\ now' > now
                          /\ r.lastDeltaSync = 0 /\ r.historyId = ""
              /\ syncState' /= syncState =>
                    call[c].bg /\ call'[c].pc = "done" /\ call'[c].bgError = "none"]_vars

\* the continuation of a paginated sync of u1 has ended without an error
\* and the row of u1@gmail.com carries its lastFullSync
C40_Witness ==
    /\ call["c1"].strategy = "paginated" /\ call["c1"].bg
    /\ call["c1"].pc = "done" /\ call["c1"].bgError = "none"
    /\ \E r \in syncState : r.email = "u1@gmail.com" /\ r.lastFullSync > 0

\* the rows of the store that a user owns, and the threads they reference
OwnMessages(u) == {r \in messages : r.userId = u}

\* C35: the rows a query of the email router answers with are rows of the
\* user of the session, and the answer is the one the query gives on the
\* store without the rows of the other users
C35_ReadsAnswerOwnRowsOnly ==
    /\ [](rd.pc = "answered" =>
            \A k \in 1..Len(rd.rows) : rd.rows[k].userId = rd.user)
    /\ [][rd'.pc = "answered" =>
            rd'.rows =
              CASE rd'.procedure = "getAll" ->
                     GetAllEmails(OwnMessages(rd'.user), threads)
                [] rd'.procedure = "getByUserPaginated" ->
                     GetUserEmailsPaginated(OwnMessages(rd'.user), threads, rd'.user,
                                            rd'.page, rd'.limit).emails
                [] OTHER -> GetEmailById(OwnMessages(rd'.user), threads, rd'.id)]_varsReads

=============================================================================
